---- MODULE Spec2Model ----
(***************************************************************************)
(* NewsScrap: the segment time allocator (src/video/composer.py), the      *)
(* article deduplicator (src/scraper/dedup.py) and the caption segmenter   *)
(* (src/subtitles/subtitle_generator.py) as state machines.                *)
(*                                                                         *)
(* Each component has its own specification (SpecAlloc, SpecDedup,         *)
(* SpecSubs; SpecRate, SpecFetch and SpecQuotes for the crawler's rate     *)
(* limiter, its retries and the quotes picker):                            *)
(* Init draws the call's inputs from bounded sets, the actions             *)
(* are the steps of the call.  SpecPure calls the module-level functions   *)
(* of dedup.py and subtitle_generator.py on their own.  The variables of    *)
(* the other components stay at their idle values.                         *)
(***************************************************************************)
EXTENDS Integers, Sequences, FiniteSets, TLC

VARIABLES
    pc,                 \* position of the running call
    \* ---- compute_segment_time_ranges
    segments,           \* list[BriefingSegment], each segment as len(seg.summary)
    total_duration_ms,
    title_duration_ms,
    word_boundaries,    \* list[WordBoundary] ([offset_ms, duration_ms]); <<>> is None or []
    ranges,             \* the returned list of (start_ms, end_ms)
    \* ---- ArticleDeduplicator.filter_duplicates and the JSONStore it reads
    entries,            \* the batch: list[RSSEntry] as [url, title]
    store,              \* date -> stored list[Article] as [url, rss_title], or NoFile
    today,              \* datetime.now() in _load_seen_urls, as a day number
    titles_today,       \* datetime.now() in _load_seen_titles
    lookback_days,      \* config["dedup"]["lookback_days"]
    threshold,          \* config["dedup"]["title_similarity_threshold"] as <<num, den>>
    seen_urls,
    seen_titles,
    batch_urls,
    batch_titles,
    unique,
    pos,                \* index of the entry the for loop is at
    \* ---- run_scrape around filter_duplicates
    run,                \* which run of run_scrape this is
    target_date,        \* the date the last run saved under, -1 before any save
    \* ---- generate_subtitles
    cues,               \* tts_result.word_boundaries: [text, offset_ms, duration_ms]
    chars_per_segment,
    sub_entries,        \* entries: list[SubtitleEntry] as [index, start_ms, end_ms, text]
    idx,
    cue_pos,            \* index of the cue the for loop is at
    entry_cue,          \* history: for each entry, the index of the cue it came from
    \* ---- module-level functions called on their own
    call,               \* the function under call
    arg,                \* its argument
    ret,                \* what the call returned (or that it raised)
    ret_again,          \* what the call on the returned value returned
    \* ---- RateLimiter and the threads that call wait
    clock,              \* time.time()
    lock,               \* self._lock: the thread that holds it, 0 for none
    last_request,       \* self._last_request: domain -> time, 0 by default
    wait_pc,            \* thread -> position in wait
    wait_domain,        \* thread -> domain of its call
    wait_now,           \* thread -> now
    waits_done,         \* number of calls of wait that have returned
    \* ---- ArticleCrawler._crawl_single and _fetch_with_retry
    max_retries,        \* scraping_cfg["max_retries"]
    backoff,            \* scraping_cfg["retry_backoff"]
    description,        \* whether entry.description is non-empty
    attempt,
    requests,           \* history: the outcome of each session.get so far
    sleeps,             \* history: each time.sleep as [after attempt, wait]
    fetch_result,       \* what _fetch_with_retry returned or raised
    article,            \* the Article _crawl_single returned
    \* ---- QuotesPicker and its quotes file
    quotes,             \* the file: list of quotes as [id, used_dates]
    pick_date,          \* the date of the last call of pick
    picked,             \* what the last call of pick returned or raised
    picks               \* number of calls of pick so far

allocVars == <<segments, total_duration_ms, title_duration_ms, word_boundaries, ranges>>

dedupInputs == <<entries, store, today, lookback_days, threshold>>

dedupLocals ==
    <<titles_today, seen_urls, seen_titles, batch_urls, batch_titles, unique, pos>>

scrapeVars == <<run, target_date>>

dedupVars == <<dedupInputs, dedupLocals, scrapeVars>>

subsInputs == <<cues, chars_per_segment>>

subsVars == <<subsInputs, sub_entries, idx, cue_pos, entry_cue>>

pureVars == <<call, arg, ret, ret_again>>

rateVars == <<clock, lock, last_request, wait_pc, wait_domain, wait_now, waits_done>>

\* the components outside the briefing core
fetchVars ==
    <<max_retries, backoff, description, attempt, requests, sleeps, fetch_result, article>>

quoteVars == <<quotes, pick_date, picked, picks>>

moreVars == <<rateVars, fetchVars, quoteVars>>

\* the components of the briefing core
coreVars == <<allocVars, dedupVars, subsVars, pureVars>>

vars == <<pc, allocVars, dedupVars, subsVars, pureVars, moreVars>>

\* The variables of a component that is not running.
AllocIdle ==
    /\ segments = <<>>
    /\ total_duration_ms = 0
    /\ title_duration_ms = 0
    /\ word_boundaries = <<>>
    /\ ranges = <<>>

DedupIdle ==
    /\ entries = <<>>
    /\ store = <<>>
    /\ today = 0
    /\ lookback_days = 0
    /\ threshold = <<0, 1>>
    /\ titles_today = 0
    /\ seen_urls = {}
    /\ seen_titles = <<>>
    /\ batch_urls = {}
    /\ batch_titles = <<>>
    /\ unique = <<>>
    /\ pos = 0
    /\ run = 0
    /\ target_date = 0 - 1

SubsIdle ==
    /\ cues = <<>>
    /\ chars_per_segment = 0
    /\ sub_entries = <<>>
    /\ idx = 0
    /\ cue_pos = 0
    /\ entry_cue = <<>>

PureIdle ==
    /\ call = "none"
    /\ arg = <<>>
    /\ ret = <<>>
    /\ ret_again = <<>>

RateIdle ==
    /\ clock = 0
    /\ lock = 0
    /\ last_request = <<>>
    /\ wait_pc = <<>>
    /\ wait_domain = <<>>
    /\ wait_now = <<>>
    /\ waits_done = 0

\* no value yet
None == [kind |-> "none"]

FetchIdle ==
    /\ max_retries = 0
    /\ backoff = 0
    /\ description = FALSE
    /\ attempt = 0
    /\ requests = <<>>
    /\ sleeps = <<>>
    /\ fetch_result = None
    /\ article = None

QuoteIdle ==
    /\ quotes = <<>>
    /\ pick_date = 0
    /\ picked = None
    /\ picks = 0

MoreIdle == RateIdle /\ FetchIdle /\ QuoteIdle

CoreIdle == AllocIdle /\ DedupIdle /\ SubsIdle /\ PureIdle

(***************************************************************************)
(* Generic helpers                                                         *)
(***************************************************************************)
RECURSIVE SumSeq(_)
SumSeq(s) == IF s = <<>> THEN 0 ELSE Head(s) + SumSeq(Tail(s))

Abs(x) == IF x < 0 THEN 0 - x ELSE x

SetMin(S) == CHOOSE x \in S : \A y \in S : x <= y

\* All sequences over S of length at most n.
SeqsUpTo(S, n) == UNION {[1..k -> S] : k \in 0..n}

(***************************************************************************)
(* int(a * (l / t)) as Python computes it: l / t is the IEEE-754 double    *)
(* nearest to the quotient, the product is rounded to a double again and   *)
(* int() truncates toward zero.  For 0 <= l <= t and |a| * t < 2^30 the    *)
(* result is floor(a*l/t), except when a*l/t is an integer q and the       *)
(* quotient was rounded down far enough for the product to round below q:  *)
(* then it is q - 1 (e.g. int(90 * (7 / 10)) = 62).                        *)
(*   m : 2^-m <= l/t < 2^-(m-1), the quotient's binary exponent            *)
(*   r : remainder of l * 2^(52+m) by t; the quotient's 53-bit mantissa    *)
(*       is rounded down iff 0 < 2r < t, by r/t units in the last place    *)
(*   the product a*(l/t - r/(t*2^(52+m))) rounds below q iff the error     *)
(*   exceeds half the spacing of the doubles just below q.                 *)
(***************************************************************************)
RECURSIVE Pow2Mod(_, _)
Pow2Mod(s, t) == IF s = 0 THEN 1 % t ELSE (2 * Pow2Mod(s - 1, t)) % t

RECURSIVE Log2Floor(_)
Log2Floor(q) == IF q < 2 THEN 0 ELSE 1 + Log2Floor(q \div 2)

RECURSIVE BinExp(_, _, _)
BinExp(l, t, m) == IF l * (2 ^ m) >= t THEN m ELSE BinExp(l, t, m + 1)

FloatMulTruncPos(a, l, t) ==
    IF a = 0 \/ l = 0 THEN 0
    ELSE IF (a * l) % t # 0 \/ l = t THEN (a * l) \div t
    ELSE LET q == (a * l) \div t
             m == BinExp(l, t, 1)
             r == (l * Pow2Mod(52 + m, t)) % t
             k == Log2Floor(q)
             e == IF q = 2 ^ k THEN m + k - 1 ELSE m + k
         IN  IF r > 0 /\ 2 * r < t /\ 2 * a * r > t * (2 ^ e) THEN q - 1 ELSE q

FloatMulTrunc(a, l, t) ==
    IF a < 0 THEN 0 - FloatMulTruncPos(0 - a, l, t) ELSE FloatMulTruncPos(a, l, t)

(***************************************************************************)
(* Segment time allocator: src/video/composer.py                           *)
(***************************************************************************)
\* tolerance_ms passed to _snap_to_boundary
SnapToleranceMs == 2000

\* the default title card length, and 0 when there is no title text
DefaultTitleMs == 3000

BoundaryEnd(wb) == wb.offset_ms + wb.duration_ms

\* The for loop of _snap_to_boundary from boundary k on: <<best_ms, best_diff>>.
RECURSIVE SnapLoop(_, _, _, _, _)
SnapLoop(target_ms, boundaries, k, best_ms, best_diff) ==
    IF k > Len(boundaries) THEN best_ms
    ELSE LET boundary_end == BoundaryEnd(boundaries[k])
             diff == Abs(boundary_end - target_ms)
         IN  IF diff < best_diff
             THEN SnapLoop(target_ms, boundaries, k + 1, boundary_end, diff)
             ELSE SnapLoop(target_ms, boundaries, k + 1, best_ms, best_diff)

\* A boundary exactly tolerance_ms away is out of reach.
SnapToBoundaryStrict(target_ms, boundaries, tolerance_ms) ==
    SnapLoop(target_ms, boundaries, 1, target_ms, tolerance_ms)

SnapToBoundary(target_ms, boundaries, tolerance_ms) ==
    SnapLoop(target_ms, boundaries, 1, target_ms, tolerance_ms + 1)

\* total_len = sum(lengths) or 1
TotalLen(segs) == IF SumSeq(segs) = 0 THEN 1 ELSE SumSeq(segs)

\* The share is rounded up instead of truncated.
SegmentDurationCeil(segs, i, total_ms, title_ms) ==
    ((total_ms - title_ms) * segs[i] + TotalLen(segs) - 1) \div TotalLen(segs)

\* segment_duration of segment i
SegmentDuration(segs, i, total_ms, title_ms) ==
    FloatMulTrunc(total_ms - title_ms, segs[i], TotalLen(segs))

\* The last segment's end is not forced: it gets its proportional share too.
TentativeEndUnforced(segs, i, current_ms, total_ms, title_ms) ==
    current_ms + SegmentDuration(segs, i, total_ms, title_ms)

\* end_ms of segment i before snapping: the last segment ends at total_duration_ms
TentativeEnd(segs, i, current_ms, total_ms, title_ms) ==
    IF i = Len(segs) THEN total_ms
    ELSE current_ms + SegmentDuration(segs, i, total_ms, title_ms)

\* end_ms of segment i as appended to ranges
SegmentEnd(segs, i, current_ms, total_ms, wbs, title_ms) ==
    LET end_ms == TentativeEnd(segs, i, current_ms, total_ms, title_ms)
    IN  IF wbs # <<>> /\ i < Len(segs)
        THEN SnapToBoundary(end_ms, wbs, SnapToleranceMs)
        ELSE end_ms

\* The for loop over the segments from segment i on.
RECURSIVE RangesLoop(_, _, _, _, _, _, _)
RangesLoop(segs, i, current_ms, acc, total_ms, wbs, title_ms) ==
    IF i > Len(segs) THEN acc
    ELSE LET end_ms == SegmentEnd(segs, i, current_ms, total_ms, wbs, title_ms)
         IN  RangesLoop(segs, i + 1, end_ms, Append(acc, <<current_ms, end_ms>>),
                        total_ms, wbs, title_ms)

compute_segment_time_ranges(segs, total_ms, wbs, title_ms) ==
    IF segs = <<>> THEN << <<title_ms, total_ms>> >>
    ELSE RangesLoop(segs, 1, title_ms, <<>>, total_ms, wbs, title_ms)

\* ---- inputs of the allocator
MaxSegments == 3
MaxBoundaries == 2

\* len(seg.summary): empty summaries, and 3 : 7 whose share 7/10 is not a double
SummaryLens == {0, 3, 7}

TotalDurations == {0, 3000, 5500, 8500}
TitleDurations == {0, DefaultTitleMs}

BoundaryPool ==
    [offset_ms : {0, 1000, 4000, 6000}, duration_ms : {500, 1500, 3000}]

\* Speech cues are ordered and do not overlap.
OrderedCues(wbs) ==
    \A k \in 1..(Len(wbs) - 1) : BoundaryEnd(wbs[k]) <= wbs[k + 1].offset_ms

\* a one-minute briefing of three segments whose summaries are 10, 20 and 30
\* characters long, without a title card
MinuteCall ==
    [segments |-> <<10, 20, 30>>, total_duration_ms |-> 60000, title_duration_ms |-> 0]

InitAlloc ==
    /\ pc = "alloc_call"
    /\ \/ /\ segments \in SeqsUpTo(SummaryLens, MaxSegments)
          /\ total_duration_ms \in TotalDurations
          /\ title_duration_ms \in TitleDurations
       \/ /\ segments = MinuteCall.segments
          /\ total_duration_ms = MinuteCall.total_duration_ms
          /\ title_duration_ms = MinuteCall.title_duration_ms
    /\ word_boundaries \in {w \in SeqsUpTo(BoundaryPool, MaxBoundaries) : OrderedCues(w)}
    /\ ranges = <<>>
    /\ DedupIdle
    /\ SubsIdle
    /\ PureIdle
    /\ MoreIdle

\* if not segments: return [(title_duration_ms, total_duration_ms)]
AllocEmpty ==
    /\ pc = "alloc_call"
    /\ segments = <<>>
    /\ ranges' = compute_segment_time_ranges(segments, total_duration_ms,
                                             word_boundaries, title_duration_ms)
    /\ pc' = "alloc_done"
    /\ UNCHANGED <<segments, total_duration_ms, title_duration_ms, word_boundaries>>
    /\ UNCHANGED <<dedupVars, subsVars, pureVars, moreVars>>

\* the proportional walk over a non-empty segment list
AllocSegments ==
    /\ pc = "alloc_call"
    /\ segments # <<>>
    /\ ranges' = compute_segment_time_ranges(segments, total_duration_ms,
                                             word_boundaries, title_duration_ms)
    /\ pc' = "alloc_done"
    /\ UNCHANGED <<segments, total_duration_ms, title_duration_ms, word_boundaries>>
    /\ UNCHANGED <<dedupVars, subsVars, pureVars, moreVars>>

NextAlloc == AllocEmpty \/ AllocSegments

SpecAlloc == InitAlloc /\ [][NextAlloc]_vars

(***************************************************************************)
(* Strings are sequences of one-character strings.                         *)
(***************************************************************************)
\* characters that Python's \s, str.strip() and str.split() treat as blank
SpaceChars == {" ", "\t", "\n"}

\* characters of \w among those the model's texts use
WordChars == {"a", "b", "c", "d", "x", "y"}

\* str.lstrip() / str.rstrip() / str.strip()
RECURSIVE LStrip(_)
LStrip(s) == IF s # <<>> /\ Head(s) \in SpaceChars THEN LStrip(Tail(s)) ELSE s

RECURSIVE RStrip(_)
RStrip(s) ==
    IF s # <<>> /\ s[Len(s)] \in SpaceChars THEN RStrip(SubSeq(s, 1, Len(s) - 1)) ELSE s

Strip(s) == LStrip(RStrip(s))

\* str.split(): the maximal runs of non-blank characters, in order
RECURSIVE SplitLoop(_, _, _)
SplitLoop(s, cur, acc) ==
    IF s = <<>> THEN (IF cur = <<>> THEN acc ELSE Append(acc, cur))
    ELSE IF Head(s) \in SpaceChars
         THEN SplitLoop(Tail(s), <<>>, IF cur = <<>> THEN acc ELSE Append(acc, cur))
         ELSE SplitLoop(Tail(s), Append(cur, Head(s)), acc)

Split(s) == SplitLoop(s, <<>>, <<>>)

Range(f) == {f[x] : x \in DOMAIN f}

(***************************************************************************)
(* Deduplicator: src/scraper/dedup.py                                      *)
(***************************************************************************)
\* str.rstrip("/") of the unparsed URL, whose last component is the path
RECURSIVE RStripSlash(_)
RStripSlash(s) ==
    IF s # <<>> /\ s[Len(s)] = "/" THEN RStripSlash(SubSeq(s, 1, Len(s) - 1)) ELSE s

\* urlunparse of a parsed URL with a non-empty netloc (params are not modelled)
UrlUnparse(u) ==
    <<u.scheme, "://", u.netloc>> \o u.path
        \o (IF u.query = <<>> THEN <<>> ELSE <<"?", u.query>>)
        \o (IF u.fragment = "" THEN <<>> ELSE <<"#", u.fragment>>)

\* The trailing slash is kept.
NormalizeUrlKeepSlash(u) ==
    UrlUnparse([u EXCEPT !.scheme = "https", !.fragment = "", !.query = <<>>])

\* dedup._normalize_url: scheme https, no fragment, no query, trailing slashes cut
NormalizeUrl(u) ==
    RStripSlash(UrlUnparse([u EXCEPT !.scheme = "https", !.fragment = "", !.query = <<>>]))

\* rss_fetcher._TRACKING_PARAMS
TrackingParams == {"utm_source", "utm_medium", "utm_campaign", "utm_term", "ref"}

\* re.sub(r"\[.*?\]", "", title): from each opening character to the nearest
\* closing one after it, "." matching every character but the line break
RECURSIVE RemoveEnclosed(_, _, _)
RemoveEnclosed(s, open, close) ==
    IF s = <<>> THEN <<>>
    ELSE IF Head(s) = open
              /\ \E k \in 2..Len(s) :
                    s[k] = close /\ \A j \in 2..(k - 1) : s[j] \notin {close, "\n"}
         THEN LET k == CHOOSE k \in 2..Len(s) :
                          s[k] = close /\ \A j \in 2..(k - 1) : s[j] # close
              IN  RemoveEnclosed(SubSeq(s, k + 1, Len(s)), open, close)
         ELSE <<Head(s)>> \o RemoveEnclosed(Tail(s), open, close)

\* re.sub(r"\s+", " ", title)
RECURSIVE CollapseSpaces(_)
CollapseSpaces(s) ==
    IF s = <<>> THEN <<>>
    ELSE IF Head(s) \in SpaceChars
         THEN <<" ">> \o CollapseSpaces(LStrip(s))
         ELSE <<Head(s)>> \o CollapseSpaces(Tail(s))

\* The whitespace is collapsed before the punctuation is removed.
NormalizeTitleCollapseFirst(title) ==
    LET t1 == RemoveEnclosed(title, "[", "]")
        t2 == RemoveEnclosed(t1, "(", ")")
        t3 == Strip(CollapseSpaces(t2))
    IN  SelectSeq(t3, LAMBDA c : c \in WordChars \/ c \in SpaceChars)

\* dedup._normalize_title
NormalizeTitle(title) ==
    LET t1 == RemoveEnclosed(title, "[", "]")
        t2 == RemoveEnclosed(t1, "(", ")")
        t3 == SelectSeq(t2, LAMBDA c : c \in WordChars \/ c \in SpaceChars)
    IN  Strip(CollapseSpaces(t3))

Tokens(title) == Range(Split(title))

\* The comparison is strict.
JaccardAbove(A, B, thr) ==
    Cardinality(A \cap B) * thr[2] > thr[1] * Cardinality(A \cup B)

\* len(intersection) / len(union) >= threshold, for a non-empty union; the
\* quotient and the threshold are compared as the rationals they round from
JaccardAtLeast(A, B, thr) ==
    Cardinality(A \cap B) * thr[2] >= thr[1] * Cardinality(A \cup B)

\* A seen title without tokens is compared like any other.
IsSimilarNoSkip(title, seen, thr) ==
    LET tokens == Tokens(title)
    IN  /\ tokens # {}
        /\ \E k \in 1..Len(seen) : JaccardAtLeast(tokens, Tokens(seen[k]), thr)

\* dedup._is_similar
IsSimilar(title, seen, thr) ==
    LET tokens == Tokens(title)
    IN  /\ tokens # {}
        /\ \E k \in 1..Len(seen) :
              /\ Tokens(seen[k]) # {}
              /\ JaccardAtLeast(tokens, Tokens(seen[k]), thr)

\* JSONStore.load_articles: no file for the date gives []
NoFile == "no file"

\* A date without a file is read from the file of the day before it.
LoadArticlesFallback(st, date) ==
    IF date \notin DOMAIN st THEN <<>>
    ELSE IF st[date] # NoFile THEN st[date]
    ELSE IF (date - 1) \in DOMAIN st /\ st[date - 1] # NoFile THEN st[date - 1]
    ELSE <<>>

LoadArticles(st, date) ==
    IF date \notin DOMAIN st \/ st[date] = NoFile THEN <<>> ELSE st[date]

\* the articles of today, today - 1, ..., today - (lookback_days - 1), in that order
RECURSIVE LookbackArticles(_, _, _, _)
LookbackArticles(st, day, i, n) ==
    IF i >= n THEN <<>>
    ELSE LoadArticles(st, day - i) \o LookbackArticles(st, day, i + 1, n)

\* ArticleDeduplicator._load_seen_urls
LoadSeenUrls(st, day, n) ==
    {NormalizeUrl(a.url) : a \in Range(LookbackArticles(st, day, 0, n))}

\* ArticleDeduplicator._load_seen_titles
LoadSeenTitles(st, day, n) ==
    LET arts == LookbackArticles(st, day, 0, n)
    IN  [k \in 1..Len(arts) |-> NormalizeTitle(arts[k].rss_title)]

\* The kept entry is put in front of the list.
PrependUnique(u, entry) == <<entry>> \o u

\* unique.append(entry)
AppendUnique(u, entry) == Append(u, entry)

\* Article.id: the first 16 hex digits of the SHA-256 of the URL, taken here
\* as the URL itself (no two URLs of the model collide)
ArticleId(a) == a.url

\* The stored article does not carry the entry's title.
CrawledArticleNoTitle(entry) == [url |-> entry.url, rss_title |-> <<>>]

\* ArticleCrawler._crawl_single: the Article of a kept entry, whether or not
\* the crawl succeeded
CrawledArticle(entry) == [url |-> entry.url, rss_title |-> entry.title]

CrawlArticles(kept) == [k \in 1..Len(kept) |-> CrawledArticle(kept[k])]

\* The date's file is replaced by the articles given.
SaveArticlesOverwrite(st, date, articles) == [st EXCEPT ![date] = <<>> \o articles]

\* JSONStore.save_articles: merged = existing + new_articles, written to the
\* date's file
SaveArticles(st, date, articles) ==
    LET existing == LoadArticles(st, date)
        existing_ids == {ArticleId(a) : a \in Range(existing)}
        new_articles == SelectSeq(articles, LAMBDA a : ArticleId(a) \notin existing_ids)
    IN  [st EXCEPT ![date] = existing \o new_articles]

\* ---- inputs of the deduplicator
MaxBatch == 3
MaxDay == 1
MaxLookback == 2
MaxRuns == 2

Url(scheme, path, query, fragment) ==
    [scheme |-> scheme, netloc |-> "x.com", path |-> path, query |-> query,
     fragment |-> fragment]

Param(k, v) == [key |-> k, value |-> v]

UrlA1 == Url("http", <<"/", "a">>, <<Param("utm_source", "y")>>, "frag")
UrlA2 == Url("https", <<"/", "a", "/">>, <<>>, "")
UrlB1 == Url("https", <<"/", "b">>, <<Param("id", "1")>>, "")
UrlB2 == Url("https", <<"/", "b">>, <<Param("id", "2")>>, "")
UrlC == Url("https", <<"/", "c">>, <<>>, "")
UrlH == Url("https", <<"/", "h">>, <<>>, "")

TitleAB == <<"a", " ", "b">>
TitleTagAB == <<"[", "x", "]", " ", "a", " ", " ", "b", "!">>
TitleCD == <<"c", " ", "d">>
TitleABC == <<"a", " ", "b", " ", "c">>
TitleTagOnly == <<"(", "y", ")", " ", "[", "x", "]">>

Entry(u, t) == [url |-> u, title |-> t]

EntryPool ==
    {Entry(UrlA1, TitleAB), Entry(UrlA2, TitleCD), Entry(UrlB1, TitleTagAB),
     Entry(UrlB2, TitleTagOnly), Entry(UrlC, TitleABC)}

Article(u, t) == [url |-> u, rss_title |-> t]

\* what one date's file may hold
StoredLists == {NoFile, <<Article(UrlA2, TitleTagOnly)>>, <<Article(UrlH, TitleAB)>>}

\* 0, 1/2 and 1 of the configured range [0, 1]
Thresholds == {<<0, 1>>, <<1, 2>>, <<1, 1>>}

InitDedup ==
    /\ pc = "dedup_call"
    /\ entries \in SeqsUpTo(EntryPool, MaxBatch)
    /\ store \in [0..MaxDay -> StoredLists]
    /\ today = MaxDay
    /\ lookback_days \in 0..MaxLookback
    /\ threshold \in Thresholds
    /\ titles_today = 0
    /\ seen_urls = {}
    /\ seen_titles = <<>>
    /\ batch_urls = {}
    /\ batch_titles = <<>>
    /\ unique = <<>>
    /\ pos = 0
    /\ run = 1
    /\ target_date = 0 - 1
    /\ AllocIdle
    /\ SubsIdle
    /\ PureIdle
    /\ MoreIdle

\* seen_urls = self._load_seen_urls(); seen_titles = self._load_seen_titles():
\* each loader reads the clock for itself, and the day may have changed by
\* the second reading
DedupLoad ==
    /\ pc = "dedup_call"
    /\ seen_urls' = LoadSeenUrls(store, today, lookback_days)
    /\ titles_today' \in {today, today + 1}
    /\ seen_titles' = LoadSeenTitles(store, titles_today', lookback_days)
    /\ batch_urls' = {}
    /\ batch_titles' = <<>>
    /\ unique' = <<>>
    /\ pos' = 1
    /\ pc' = "dedup_loop"
    /\ UNCHANGED <<dedupInputs, scrapeVars, allocVars, subsVars, pureVars, moreVars>>

\* if norm_url in seen_urls or norm_url in batch_urls: continue
DedupSkipUrl ==
    /\ pc = "dedup_loop"
    /\ pos <= Len(entries)
    /\ NormalizeUrl(entries[pos].url) \in seen_urls \cup batch_urls
    /\ pos' = pos + 1
    /\ UNCHANGED <<pc, dedupInputs, titles_today, seen_urls, seen_titles, batch_urls,
                   batch_titles, unique, scrapeVars, allocVars, subsVars, pureVars, moreVars>>

\* if _is_similar(norm_title, seen_titles + batch_titles, self.threshold): continue
DedupSkipTitle ==
    /\ pc = "dedup_loop"
    /\ pos <= Len(entries)
    /\ NormalizeUrl(entries[pos].url) \notin seen_urls \cup batch_urls
    /\ IsSimilar(NormalizeTitle(entries[pos].title), seen_titles \o batch_titles, threshold)
    /\ pos' = pos + 1
    /\ UNCHANGED <<pc, dedupInputs, titles_today, seen_urls, seen_titles, batch_urls,
                   batch_titles, unique, scrapeVars, allocVars, subsVars, pureVars, moreVars>>

\* batch_urls.add(norm_url); batch_titles.append(norm_title); unique.append(entry)
DedupKeep ==
    /\ pc = "dedup_loop"
    /\ pos <= Len(entries)
    /\ NormalizeUrl(entries[pos].url) \notin seen_urls \cup batch_urls
    /\ ~IsSimilar(NormalizeTitle(entries[pos].title), seen_titles \o batch_titles, threshold)
    /\ batch_urls' = batch_urls \cup {NormalizeUrl(entries[pos].url)}
    /\ batch_titles' = Append(batch_titles, NormalizeTitle(entries[pos].title))
    /\ unique' = AppendUnique(unique, entries[pos])
    /\ pos' = pos + 1
    /\ UNCHANGED <<pc, dedupInputs, titles_today, seen_urls, seen_titles,
                   scrapeVars, allocVars, subsVars, pureVars, moreVars>>

\* return unique
DedupReturn ==
    /\ pc = "dedup_loop"
    /\ pos > Len(entries)
    /\ pc' = "dedup_done"
    /\ UNCHANGED <<dedupVars, allocVars, subsVars, pureVars, moreVars>>

\* run_scrape after filter_duplicates: nothing is stored for an empty result,
\* else the crawled articles are saved under target_date
ScrapeSave ==
    /\ pc = "dedup_done"
    /\ unique # <<>>
    /\ target_date' \in DOMAIN store
    /\ store' = SaveArticles(store, target_date', CrawlArticles(unique))
    /\ pc' = "scrape_saved"
    /\ UNCHANGED <<entries, today, lookback_days, threshold, dedupLocals, run,
                   allocVars, subsVars, pureVars, moreVars>>

\* run_scrape is run again on the same batch; the clock has not gone back
\* behind its last reading
ScrapeAgain ==
    /\ pc = "scrape_saved"
    /\ run < MaxRuns
    /\ run' = run + 1
    /\ today' = titles_today
    /\ pc' = "dedup_call"
    /\ UNCHANGED <<entries, store, lookback_days, threshold, dedupLocals, target_date,
                   allocVars, subsVars, pureVars, moreVars>>

NextDedup ==
    \/ DedupLoad \/ DedupSkipUrl \/ DedupSkipTitle \/ DedupKeep \/ DedupReturn
    \/ ScrapeSave \/ ScrapeAgain

SpecDedup == InitDedup /\ [][NextDedup]_vars


(***************************************************************************)
(* Caption segmenter: src/subtitles/subtitle_generator.py                  *)
(***************************************************************************)
\* the characters _split_text cuts after: " ,.:!?" and middle dot, ellipsis, tilde
BoundaryChars == {" ", ",", ".", ":", "!", "?", "MIDDLE DOT", "ELLIPSIS", "~"}

\* range(max_chars, max(0, max_chars - 5), -1) scans this many positions
ScanWindow == 5

Max2(a, b) == IF a > b THEN a ELSE b

SetMax(S) == CHOOSE x \in S : \A y \in S : y <= x

\* The text is cut before the boundary character, looked for down to the
\* first position.
SplitPosBefore(remaining, max_chars) ==
    LET found == {i \in 0..max_chars : remaining[i + 1] \in BoundaryChars}
    IN  IF found = {} THEN max_chars ELSE SetMax(found)

\* split_pos: one past the last boundary character at a (0-based) position in
\* max(0, max_chars - 5) + 1 .. max_chars, else max_chars
SplitPos(remaining, max_chars) ==
    LET found == {i \in (Max2(0, max_chars - ScanWindow) + 1)..max_chars :
                      remaining[i + 1] \in BoundaryChars}
    IN  IF found = {} THEN max_chars ELSE SetMax(found) + 1

\* The while loop of _split_text.
RECURSIVE SplitTextLoop(_, _, _)
SplitTextLoop(remaining, max_chars, chunks) ==
    IF Len(remaining) > max_chars
    THEN LET split_pos == SplitPos(remaining, max_chars)
         IN  SplitTextLoop(Strip(SubSeq(remaining, split_pos + 1, Len(remaining))),
                           max_chars,
                           Append(chunks, Strip(SubSeq(remaining, 1, split_pos))))
    ELSE IF remaining # <<>> THEN Append(chunks, remaining) ELSE chunks

\* _split_text
SplitText(text, max_chars) == SplitTextLoop(text, max_chars, <<>>)

\* chunk_duration = int(wb.duration_ms * ratio), ratio = len(chunk) / total_chars
ChunkDuration(duration_ms, chunk, total_chars) ==
    FloatMulTrunc(duration_ms, Len(chunk), total_chars)

SubtitleEntry(index, start_ms, end_ms, text) ==
    [index |-> index, start_ms |-> start_ms, end_ms |-> end_ms, text |-> text]

\* The running offset is not advanced: every chunk starts at the cue's offset.
RECURSIVE ChunkEntriesNoAdvance(_, _, _, _, _, _)
ChunkEntriesNoAdvance(chunks, k, current_offset, index, wb, total_chars) ==
    IF k > Len(chunks) THEN <<>>
    ELSE LET chunk_duration == ChunkDuration(wb.duration_ms, chunks[k], total_chars)
         IN  <<SubtitleEntry(index, current_offset, current_offset + chunk_duration,
                             chunks[k])>>
                 \o ChunkEntriesNoAdvance(chunks, k + 1, current_offset,
                                          index + 1, wb, total_chars)

\* The index starts again at 1 for the chunks of each cue.
RECURSIVE ChunkEntriesRestart(_, _, _, _, _, _)
ChunkEntriesRestart(chunks, k, current_offset, index, wb, total_chars) ==
    IF k > Len(chunks) THEN <<>>
    ELSE LET chunk_duration == ChunkDuration(wb.duration_ms, chunks[k], total_chars)
         IN  <<SubtitleEntry(k, current_offset, current_offset + chunk_duration,
                             chunks[k])>>
                 \o ChunkEntriesRestart(chunks, k + 1, current_offset + chunk_duration,
                                        index, wb, total_chars)

\* The for loop over the chunks of one cue from chunk k on: the entries appended.
RECURSIVE ChunkEntries(_, _, _, _, _, _)
ChunkEntries(chunks, k, current_offset, index, wb, total_chars) ==
    IF k > Len(chunks) THEN <<>>
    ELSE LET chunk_duration == ChunkDuration(wb.duration_ms, chunks[k], total_chars)
         IN  <<SubtitleEntry(index, current_offset, current_offset + chunk_duration,
                             chunks[k])>>
                 \o ChunkEntries(chunks, k + 1, current_offset + chunk_duration,
                                 index + 1, wb, total_chars)

\* ---- inputs of the caption segmenter
MaxTextLen == 4
MaxChars == 3
MaxExtraCues == 1

\* a chars_per_segment above the scan window, so that the window's lower end counts
WideChars == 6

TextAlphabet == {"a", " ", ","}

LongTexts ==
    {<<"a", " ", "a", "a", "a", "a", "a", "a">>,
     <<"a", "a", "a", "a", "a", "a", ",", "a">>,
     <<"a", "a", "a", "a", ",", " ", "a", "a", "a">>}

CueTexts == SeqsUpTo(TextAlphabet, MaxTextLen) \cup LongTexts

\* a cue of one millisecond, and one of a second
CueDurations == {1, 1000}

\* the cues around the one under test: a blank one and a short one
ExtraCues ==
    {[text |-> <<" ", " ">>, duration_ms |-> 300], [text |-> <<"a">>, duration_ms |-> 200]}

\* Speech cues follow one another: each starts where the one before it ends.
RECURSIVE WithOffsets(_, _)
WithOffsets(shape, offset_ms) ==
    IF shape = <<>> THEN <<>>
    ELSE <<[text |-> Head(shape).text, offset_ms |-> offset_ms,
            duration_ms |-> Head(shape).duration_ms]>>
             \o WithOffsets(Tail(shape), offset_ms + Head(shape).duration_ms)

CueLists ==
    {<<>>} \cup
    {WithOffsets(pre \o <<[text |-> t, duration_ms |-> d]>> \o post, 0) :
        <<pre, post, t, d>> \in
            {x \in SeqsUpTo(ExtraCues, MaxExtraCues) \X SeqsUpTo(ExtraCues, MaxExtraCues)
                       \X CueTexts \X CueDurations :
                 Len(x[1]) + Len(x[2]) <= MaxExtraCues}}

InitSubs ==
    /\ pc = "subs_call"
    /\ cues \in CueLists
    /\ chars_per_segment \in (1..MaxChars) \cup {WideChars}
    /\ sub_entries = <<>>
    /\ idx = 0
    /\ cue_pos = 0
    /\ entry_cue = <<>>
    /\ AllocIdle
    /\ DedupIdle
    /\ PureIdle
    /\ MoreIdle

\* if not tts_result.word_boundaries: return []
SubsNoBoundaries ==
    /\ pc = "subs_call"
    /\ cues = <<>>
    /\ sub_entries' = <<>>
    /\ pc' = "subs_done"
    /\ UNCHANGED <<subsInputs, idx, cue_pos, entry_cue, allocVars, dedupVars, pureVars, moreVars>>

\* entries = []; idx = 1
SubsBegin ==
    /\ pc = "subs_call"
    /\ cues # <<>>
    /\ sub_entries' = <<>>
    /\ idx' = 1
    /\ cue_pos' = 1
    /\ pc' = "subs_loop"
    /\ UNCHANGED <<subsInputs, entry_cue, allocVars, dedupVars, pureVars, moreVars>>

\* A cue without text gets an entry of its own.
SubsKeepBlank ==
    /\ pc = "subs_loop"
    /\ cue_pos <= Len(cues)
    /\ Strip(cues[cue_pos].text) = <<>>
    /\ sub_entries' = Append(sub_entries,
           SubtitleEntry(idx, cues[cue_pos].offset_ms,
                         cues[cue_pos].offset_ms + cues[cue_pos].duration_ms, <<>>))
    /\ entry_cue' = Append(entry_cue, cue_pos)
    /\ idx' = idx + 1
    /\ cue_pos' = cue_pos + 1
    /\ UNCHANGED <<pc, subsInputs, allocVars, dedupVars, pureVars, moreVars>>

\* text = wb.text.strip(); if not text: continue
SubsSkipBlank ==
    /\ pc = "subs_loop"
    /\ cue_pos <= Len(cues)
    /\ Strip(cues[cue_pos].text) = <<>>
    /\ cue_pos' = cue_pos + 1
    /\ UNCHANGED <<pc, subsInputs, sub_entries, idx, entry_cue, allocVars, dedupVars, pureVars, moreVars>>

\* if len(text) <= chars_per_segment: one entry over the cue's whole span
SubsShort ==
    /\ pc = "subs_loop"
    /\ cue_pos <= Len(cues)
    /\ LET wb == cues[cue_pos]
           text == Strip(wb.text)
       IN  /\ text # <<>>
           /\ Len(text) <= chars_per_segment
           /\ sub_entries' = Append(sub_entries,
                  SubtitleEntry(idx, wb.offset_ms, wb.offset_ms + wb.duration_ms, text))
    /\ entry_cue' = Append(entry_cue, cue_pos)
    /\ idx' = idx + 1
    /\ cue_pos' = cue_pos + 1
    /\ UNCHANGED <<pc, subsInputs, allocVars, dedupVars, pureVars, moreVars>>

\* chunks = _split_text(text, chars_per_segment) and the for loop over them
SubsSplit ==
    /\ pc = "subs_loop"
    /\ cue_pos <= Len(cues)
    /\ LET wb == cues[cue_pos]
           text == Strip(wb.text)
           chunks == SplitText(text, chars_per_segment)
       IN  /\ Len(text) > chars_per_segment
           /\ sub_entries' = sub_entries
                  \o ChunkEntries(chunks, 1, wb.offset_ms, idx, wb, Len(text))
           /\ entry_cue' = entry_cue \o [k \in 1..Len(chunks) |-> cue_pos]
           /\ idx' = idx + Len(chunks)
    /\ cue_pos' = cue_pos + 1
    /\ UNCHANGED <<pc, subsInputs, allocVars, dedupVars, pureVars, moreVars>>

\* return entries
SubsReturn ==
    /\ pc = "subs_loop"
    /\ cue_pos > Len(cues)
    /\ pc' = "subs_done"
    /\ UNCHANGED <<subsVars, allocVars, dedupVars, pureVars, moreVars>>

NextSubs ==
    SubsNoBoundaries \/ SubsBegin \/ SubsSkipBlank \/ SubsShort \/ SubsSplit \/ SubsReturn

SpecSubs == InitSubs /\ [][NextSubs]_vars

(***************************************************************************)
(* dedup._normalize_url on the text of a URL: urllib.parse.urlparse, the   *)
(* replacement of scheme, query and fragment, urlunparse and rstrip("/").  *)
(* The texts of the model hold no "]" and no non-ASCII character.          *)
(***************************************************************************)
\* s[:n]
Prefix(s, n) == SubSeq(s, 1, IF n > Len(s) THEN Len(s) ELSE n)

\* str.find(c, lo) for a character of C: the first position from lo on, 0 for none
FindFirst(s, C, lo) ==
    IF \E i \in lo..Len(s) : s[i] \in C
    THEN SetMin({i \in lo..Len(s) : s[i] \in C})
    ELSE 0

\* str.rfind(c): the last position, 0 for none
FindLast(s, c) ==
    IF \E i \in 1..Len(s) : s[i] = c THEN SetMax({i \in 1..Len(s) : s[i] = c}) ELSE 0

\* the ASCII letters among the characters the model's URLs use
UrlLetters == {"a", "h", "p", "s", "t", "x"}

\* urllib.parse.scheme_chars: letters, digits and "+-."
SchemeChars == UrlLetters \cup {"+", "-", "."}

Https == <<"h", "t", "t", "p", "s">>

\* urllib.parse.uses_params, as far as the model's letters spell its members
UsesParams == {<<>>, <<"h", "t", "t", "p">>, Https, <<"s", "h", "t", "t", "p">>}

\* _UNSAFE_URL_BYTES_TO_REMOVE
UnsafeUrlChars == {"\t", "\n"}

\* urlsplit: the scheme is what precedes the first ":" when that is a letter
\* followed by scheme characters only
SplitScheme(url) ==
    LET i == FindFirst(url, {":"}, 1)
    IN  IF i > 1 /\ url[1] \in UrlLetters /\ \A k \in 1..(i - 1) : url[k] \in SchemeChars
        THEN [scheme |-> SubSeq(url, 1, i - 1), rest |-> SubSeq(url, i + 1, Len(url))]
        ELSE [scheme |-> <<>>, rest |-> url]

\* urlsplit: after "//" the netloc runs up to the first of "/", "?", "#"
SplitNetloc(url) ==
    IF Prefix(url, 2) = <<"/", "/">>
    THEN LET d == FindFirst(url, {"/", "?", "#"}, 3)
             delim == IF d = 0 THEN Len(url) + 1 ELSE d
         IN  [netloc |-> SubSeq(url, 3, delim - 1), rest |-> SubSeq(url, delim, Len(url))]
    ELSE [netloc |-> <<>>, rest |-> url]

\* raise ValueError("Invalid IPv6 URL"): one square bracket without the other
InvalidNetloc(netloc) ==
    ("[" \in Range(netloc)) # ("]" \in Range(netloc))

\* str.split(c, 1)[0] when c occurs, else the whole text
Before(s, c) ==
    LET i == FindFirst(s, {c}, 1) IN IF i = 0 THEN s ELSE SubSeq(s, 1, i - 1)

\* urllib.parse._splitparams: the parameters follow the first ";" of the last
\* path segment
SplitParams(url) ==
    LET slash == FindLast(url, "/")
        i == FindFirst(url, {";"}, IF slash = 0 THEN 1 ELSE slash)
    IN  IF i = 0 THEN [path |-> url, params |-> <<>>]
        ELSE [path |-> SubSeq(url, 1, i - 1), params |-> SubSeq(url, i + 1, Len(url))]

\* urlparse: the parts that _normalize_url keeps (netloc, path, params)
UrlParse(text) ==
    LET url == SelectSeq(LStrip(text), LAMBDA c : c \notin UnsafeUrlChars)
        sch == SplitScheme(url)
        loc == SplitNetloc(sch.rest)
        path == Before(Before(loc.rest, "#"), "?")
        par == IF sch.scheme \in UsesParams /\ ";" \in Range(path)
               THEN SplitParams(path)
               ELSE [path |-> path, params |-> <<>>]
    IN  [raised |-> InvalidNetloc(loc.netloc), netloc |-> loc.netloc,
         path |-> par.path, params |-> par.params]

\* urlunparse with scheme "https" and no query or fragment
UrlUnparseHttps(netloc, path, params) ==
    LET url == IF params # <<>> THEN path \o <<";">> \o params ELSE path
        rooted == IF url # <<>> /\ url[1] # "/" THEN <<"/">> \o url ELSE url
        full == IF netloc # <<>> \/ Prefix(url, 2) # <<"/", "/">>
                THEN <<"/", "/">> \o netloc \o rooted
                ELSE url
    IN  Https \o <<":">> \o full

ValueError == [raised |-> TRUE, value |-> <<>>]

Returned(v) == [raised |-> FALSE, value |-> v]

\* dedup._normalize_url on a text
normalize_url(text) ==
    LET parsed == UrlParse(text)
    IN  IF parsed.raised THEN ValueError
        ELSE Returned(RStripSlash(UrlUnparseHttps(parsed.netloc, parsed.path,
                                                  parsed.params)))

(***************************************************************************)
(* subtitle_generator._ms_to_srt_time: the timecode as a text.             *)
(***************************************************************************)
DecimalDigits == <<"0", "1", "2", "3", "4", "5", "6", "7", "8", "9">>

\* str(n) for n >= 0
RECURSIVE Decimal(_)
Decimal(n) ==
    IF n < 10 THEN <<DecimalDigits[n + 1]>>
    ELSE Decimal(n \div 10) \o <<DecimalDigits[(n % 10) + 1]>>

\* f"{n:0wd}" for n >= 0: zeros in front up to a width of at least w
ZeroPadded(n, w) ==
    LET d == Decimal(n)
    IN  IF Len(d) >= w THEN d ELSE [k \in 1..(w - Len(d)) |-> "0"] \o d

\* The hour is not taken out before the minutes are counted.
MsToSrtTimeNoCarry(ms) ==
    LET hours == ms \div 3600000
        minutes == ms \div 60000
        seconds == (ms % 60000) \div 1000
        millis == ms % 1000
    IN  ZeroPadded(hours, 2) \o <<":">> \o ZeroPadded(minutes, 2) \o <<":">>
            \o ZeroPadded(seconds, 2) \o <<",">> \o ZeroPadded(millis, 3)

\* _ms_to_srt_time
MsToSrtTime(ms) ==
    LET hours == ms \div 3600000
        ms1 == ms % 3600000
        minutes == ms1 \div 60000
        ms2 == ms1 % 60000
        seconds == ms2 \div 1000
        millis == ms2 % 1000
    IN  ZeroPadded(hours, 2) \o <<":">> \o ZeroPadded(minutes, 2) \o <<":">>
            \o ZeroPadded(seconds, 2) \o <<",">> \o ZeroPadded(millis, 3)

(***************************************************************************)
(* The functions of dedup.py called on their own, and called again on      *)
(* what they returned.                                                     *)
(***************************************************************************)
MaxTail == 4

HttpX == <<"h", "t", "t", "p", ":", "/", "/", "x">>

\* a URL text: nothing or http://x, followed by a few more characters
UrlTails == SeqsUpTo({"a", "/", ";", "?", "#", "[", ":"}, MaxTail)

UrlTexts == {prefix \o tail : prefix \in {<<>>, HttpX}, tail \in UrlTails}

MaxTitleLen == 4

\* a title: a letter, blanks, a line break, brackets, parentheses, punctuation
TitleTexts == SeqsUpTo({"a", " ", "\n", "[", "]", "(", ")", "!"}, MaxTitleLen)

MaxNormLen == 3

\* the normalized titles of up to MaxNormLen characters over two letters
NormTitles ==
    {t \in SeqsUpTo({"a", "b", " "}, MaxNormLen) : NormalizeTitle(t) = t}

\* seen: nothing, one title, or one title next to a title without tokens
SeenLists ==
    {<<>>} \cup {<<t>> : t \in NormTitles}
           \cup {<<<<>>, t>> : t \in NormTitles} \cup {<<t, <<>>>> : t \in NormTitles}

\* the trimmed, non-empty texts generate_subtitles may pass to _split_text
SplitTexts == {t \in CueTexts : t # <<>> /\ Strip(t) = t}

\* start_ms and end_ms of an entry: around the second, the minute, the hour
\* and the hundredth hour
SrtTimes ==
    {h * 3600000 + m * 60000 + sec * 1000 + k :
        h \in {0, 1, 99, 100}, m \in {0, 1, 59}, sec \in {0, 7, 59}, k \in {0, 5, 40, 999}}

(***************************************************************************)
(* pipeline._select_diverse_articles: src/pipeline.py.  An article is its  *)
(* position in the input list; the list gives each article's source_name. *)
(***************************************************************************)
MaxArticles == 5
MaxCount == 4

SourceNames == {"a", "b", "c"}

ArticleLists == UNION {[1..n -> SourceNames] : n \in 0..MaxArticles}

\* s without the elements that are in the set gone
RECURSIVE Without(_, _)
Without(s, gone) ==
    IF s = <<>> THEN <<>>
    ELSE IF s[1] \in gone THEN Without(Tail(s), gone)
    ELSE <<s[1]>> \o Without(Tail(s), gone)

\* the keys of by_source, in the order they were inserted
RECURSIVE SourceOrder(_)
SourceOrder(articles) ==
    IF Len(articles) = 0 THEN <<>>
    ELSE LET before == SourceOrder(SubSeq(articles, 1, Len(articles) - 1))
             src == articles[Len(articles)]
         IN  IF src \in Range(before) THEN before ELSE Append(before, src)

\* by_source[src]: the articles of the source, in input order
RECURSIVE BySource(_, _)
BySource(articles, src) ==
    IF Len(articles) = 0 THEN <<>>
    ELSE LET before == BySource(SubSeq(articles, 1, Len(articles) - 1), src)
         IN  IF articles[Len(articles)] = src THEN Append(before, Len(articles))
             ELSE before

InitPure ==
    /\ pc = "pure_call"
    /\ \/ call = "_normalize_url" /\ arg \in UrlTexts
       \/ call = "_normalize_title" /\ arg \in TitleTexts
       \/ /\ call = "_is_similar"
          /\ arg \in [title : NormTitles, seen : SeenLists, threshold : Thresholds]
       \/ /\ call = "_split_text"
          /\ arg \in [text : SplitTexts, max_chars : (1..MaxChars) \cup {WideChars}]
       \/ call = "_ms_to_srt_time" /\ arg \in SrtTimes
       \/ /\ call = "_select_diverse_articles"
          /\ arg \in [articles : ArticleLists, max_count : 0..MaxCount]
    /\ ret = <<>>
    /\ ret_again = <<>>
    /\ AllocIdle
    /\ DedupIdle
    /\ SubsIdle
    /\ MoreIdle

\* _normalize_url(url)
UrlCall ==
    /\ pc = "pure_call"
    /\ call = "_normalize_url"
    /\ ret' = normalize_url(arg)
    /\ pc' = "pure_returned"
    /\ UNCHANGED <<call, arg, ret_again, allocVars, dedupVars, subsVars, moreVars>>

\* _normalize_url(_normalize_url(url)), when the first call returned
UrlCallAgain ==
    /\ pc = "pure_returned"
    /\ call = "_normalize_url"
    /\ ~ret.raised
    /\ ret_again' = normalize_url(ret.value)
    /\ pc' = "pure_done"
    /\ UNCHANGED <<call, arg, ret, allocVars, dedupVars, subsVars, moreVars>>

\* _normalize_title(title)
TitleCall ==
    /\ pc = "pure_call"
    /\ call = "_normalize_title"
    /\ ret' = Returned(NormalizeTitle(arg))
    /\ pc' = "pure_returned"
    /\ UNCHANGED <<call, arg, ret_again, allocVars, dedupVars, subsVars, moreVars>>

\* _normalize_title(_normalize_title(title))
TitleCallAgain ==
    /\ pc = "pure_returned"
    /\ call = "_normalize_title"
    /\ ret_again' = Returned(NormalizeTitle(ret.value))
    /\ pc' = "pure_done"
    /\ UNCHANGED <<call, arg, ret, allocVars, dedupVars, subsVars, moreVars>>

\* _is_similar(title, seen, threshold)
SimilarCall ==
    /\ pc = "pure_call"
    /\ call = "_is_similar"
    /\ ret' = Returned(IsSimilar(arg.title, arg.seen, arg.threshold))
    /\ pc' = "pure_returned"
    /\ UNCHANGED <<call, arg, ret_again, allocVars, dedupVars, subsVars, moreVars>>

\* _is_similar(s, [title], threshold) for the one title s of seen
SimilarCallSwapped ==
    /\ pc = "pure_returned"
    /\ call = "_is_similar"
    /\ Len(arg.seen) = 1
    /\ ret_again' = Returned(IsSimilar(arg.seen[1], <<arg.title>>, arg.threshold))
    /\ pc' = "pure_done"
    /\ UNCHANGED <<call, arg, ret, allocVars, dedupVars, subsVars, moreVars>>

\* _split_text(text, max_chars): chunks = []; remaining = text
SplitBegin ==
    /\ pc = "pure_call"
    /\ call = "_split_text"
    /\ ret' = [remaining |-> arg.text, chunks |-> <<>>]
    /\ pc' = "split_loop"
    /\ UNCHANGED <<call, arg, ret_again, allocVars, dedupVars, subsVars, moreVars>>

\* one iteration of while len(remaining) > max_chars
SplitStep ==
    /\ pc = "split_loop"
    /\ Len(ret.remaining) > arg.max_chars
    /\ LET split_pos == SplitPos(ret.remaining, arg.max_chars)
       IN  ret' = [remaining |->
                      Strip(SubSeq(ret.remaining, split_pos + 1, Len(ret.remaining))),
                   chunks |->
                      Append(ret.chunks, Strip(SubSeq(ret.remaining, 1, split_pos)))]
    /\ UNCHANGED <<pc, call, arg, ret_again, allocVars, dedupVars, subsVars, moreVars>>

\* if remaining: chunks.append(remaining); return chunks
SplitReturn ==
    /\ pc = "split_loop"
    /\ Len(ret.remaining) <= arg.max_chars
    /\ ret' = Returned(IF ret.remaining # <<>> THEN Append(ret.chunks, ret.remaining)
                       ELSE ret.chunks)
    /\ pc' = "pure_done"
    /\ UNCHANGED <<call, arg, ret_again, allocVars, dedupVars, subsVars, moreVars>>

\* _ms_to_srt_time(ms)
SrtTimeCall ==
    /\ pc = "pure_call"
    /\ call = "_ms_to_srt_time"
    /\ ret' = Returned(MsToSrtTime(arg))
    /\ pc' = "pure_returned"
    /\ UNCHANGED <<call, arg, ret_again, allocVars, dedupVars, subsVars, moreVars>>

\* _select_diverse_articles(articles, max_count): by_source, selected = [],
\* one iterator per source
SelectBegin ==
    /\ pc = "pure_call"
    /\ call = "_select_diverse_articles"
    /\ ret' = [selected |-> <<>>,
               iterators |-> SourceOrder(arg.articles),
               consumed |-> [src \in SourceNames |-> 0],
               exhausted |-> <<>>,
               cursor |-> 0]
    /\ pc' = "select_while"
    /\ UNCHANGED <<call, arg, ret_again, allocVars, dedupVars, subsVars, moreVars>>

\* while len(selected) < max_count and iterators: exhausted = []
SelectEnterFor ==
    /\ pc = "select_while"
    /\ Len(ret.selected) < arg.max_count
    /\ ret.iterators # <<>>
    /\ ret' = [ret EXCEPT !.exhausted = <<>>, !.cursor = 1]
    /\ pc' = "select_for"
    /\ UNCHANGED <<call, arg, ret_again, allocVars, dedupVars, subsVars, moreVars>>

\* the while condition is false: return selected
SelectReturn ==
    /\ pc = "select_while"
    /\ ~(Len(ret.selected) < arg.max_count /\ ret.iterators # <<>>)
    /\ ret' = Returned(ret.selected)
    /\ pc' = "pure_done"
    /\ UNCHANGED <<call, arg, ret_again, allocVars, dedupVars, subsVars, moreVars>>

\* An article is taken although max_count are selected.
SelectTakeUnbounded ==
    /\ pc = "select_for"
    /\ ret.cursor <= Len(ret.iterators)
    /\ LET src == ret.iterators[ret.cursor]
           arts == BySource(arg.articles, src)
       IN  /\ ret.consumed[src] < Len(arts)
           /\ ret' = [ret EXCEPT !.selected = Append(@, arts[ret.consumed[src] + 1]),
                                 !.consumed[src] = @ + 1,
                                 !.cursor = @ + 1]
    /\ UNCHANGED <<pc, call, arg, ret_again, allocVars, dedupVars, subsVars, moreVars>>

\* article = next(it, None); selected.append(article)
SelectTake ==
    /\ pc = "select_for"
    /\ ret.cursor <= Len(ret.iterators)
    /\ Len(ret.selected) < arg.max_count
    /\ LET src == ret.iterators[ret.cursor]
           arts == BySource(arg.articles, src)
       IN  /\ ret.consumed[src] < Len(arts)
           /\ ret' = [ret EXCEPT !.selected = Append(@, arts[ret.consumed[src] + 1]),
                                 !.consumed[src] = @ + 1,
                                 !.cursor = @ + 1]
    /\ UNCHANGED <<pc, call, arg, ret_again, allocVars, dedupVars, subsVars, moreVars>>

\* article = next(it, None) is None: exhausted.append(src)
SelectExhausted ==
    /\ pc = "select_for"
    /\ ret.cursor <= Len(ret.iterators)
    /\ Len(ret.selected) < arg.max_count
    /\ LET src == ret.iterators[ret.cursor]
       IN  /\ ret.consumed[src] = Len(BySource(arg.articles, src))
           /\ ret' = [ret EXCEPT !.exhausted = Append(@, src), !.cursor = @ + 1]
    /\ UNCHANGED <<pc, call, arg, ret_again, allocVars, dedupVars, subsVars, moreVars>>

\* the for loop ends or breaks: for src in exhausted: del iterators[src]
SelectEndFor ==
    /\ pc = "select_for"
    /\ ret.cursor > Len(ret.iterators) \/ Len(ret.selected) >= arg.max_count
    /\ ret' = [ret EXCEPT !.iterators = Without(@, Range(ret.exhausted))]
    /\ pc' = "select_while"
    /\ UNCHANGED <<call, arg, ret_again, allocVars, dedupVars, subsVars, moreVars>>

NextPure ==
    \/ SrtTimeCall
    \/ SelectBegin \/ SelectEnterFor \/ SelectReturn
    \/ SelectTake \/ SelectExhausted \/ SelectEndFor
    \/ UrlCall \/ UrlCallAgain
    \/ TitleCall \/ TitleCallAgain
    \/ SimilarCall \/ SimilarCallSwapped
    \/ SplitBegin \/ SplitStep \/ SplitReturn

SpecPure == InitPure /\ [][NextPure]_vars

(***************************************************************************)
(* RateLimiter: src/scraper/rate_limiter.py, called by several threads.    *)
(* Times are whole ticks of a clock that never goes back; time.sleep(d)    *)
(* returns when at least d has passed.                                     *)
(***************************************************************************)
\* default_delay, in ticks
DefaultDelay == 2

MaxThreads == 2
MaxWaits == 3
MaxClock == 8

\* the clock when the limiter is created: later than default_delay after 0
StartTime == 3

Threads == 1..MaxThreads

\* urlparse(url).netloc of the URLs the threads ask for
Domains == {"x.com", "y.com"}

InitRate ==
    /\ pc = "rate_calls"
    /\ clock = StartTime
    /\ lock = 0
    /\ last_request = [d \in Domains |-> 0]
    /\ wait_pc = [t \in Threads |-> "idle"]
    /\ wait_domain = [t \in Threads |-> "x.com"]
    /\ wait_now = [t \in Threads |-> 0]
    /\ waits_done = 0
    /\ CoreIdle
    /\ FetchIdle
    /\ QuoteIdle

\* Time passes.
Tick ==
    /\ pc = "rate_calls"
    /\ clock < MaxClock
    /\ clock' = clock + 1
    /\ UNCHANGED <<pc, lock, last_request, wait_pc, wait_domain, wait_now, waits_done,
                   coreVars, fetchVars, quoteVars>>

\* The lock is taken whether or not another thread holds it.
WaitEnterUnlocked(t) ==
    /\ pc = "rate_calls"
    /\ wait_pc[t] = "called"
    /\ lock' = t
    /\ wait_pc' = [wait_pc EXCEPT ![t] = "locked"]
    /\ UNCHANGED <<pc, clock, last_request, wait_domain, wait_now, waits_done, coreVars, fetchVars, quoteVars>>

\* wait(url): domain = urlparse(url).netloc
WaitCall(t) ==
    /\ pc = "rate_calls"
    /\ wait_pc[t] = "idle"
    /\ waits_done + Cardinality({u \in Threads : wait_pc[u] # "idle"}) < MaxWaits
    /\ \E d \in Domains : wait_domain' = [wait_domain EXCEPT ![t] = d]
    /\ wait_pc' = [wait_pc EXCEPT ![t] = "called"]
    /\ UNCHANGED <<pc, clock, lock, last_request, wait_now, waits_done, coreVars, fetchVars, quoteVars>>

\* with self._lock: the thread goes on when no thread holds the lock
WaitEnter(t) ==
    /\ pc = "rate_calls"
    /\ wait_pc[t] = "called"
    /\ lock = 0
    /\ lock' = t
    /\ wait_pc' = [wait_pc EXCEPT ![t] = "locked"]
    /\ UNCHANGED <<pc, clock, last_request, wait_domain, wait_now, waits_done, coreVars, fetchVars, quoteVars>>

\* now = time.time()
WaitReadClock(t) ==
    /\ pc = "rate_calls"
    /\ wait_pc[t] = "locked"
    /\ wait_now' = [wait_now EXCEPT ![t] = clock]
    /\ wait_pc' = [wait_pc EXCEPT ![t] = "read"]
    /\ UNCHANGED <<pc, clock, lock, last_request, wait_domain, waits_done, coreVars, fetchVars, quoteVars>>

\* elapsed = now - self._last_request[domain]
Elapsed(t) == wait_now[t] - last_request[wait_domain[t]]

\* if elapsed < self.default_delay: time.sleep(self.default_delay - elapsed):
\* the sleep lasts the time asked for or a tick longer
WaitSleep(t) ==
    /\ pc = "rate_calls"
    /\ wait_pc[t] = "read"
    /\ Elapsed(t) < DefaultDelay
    /\ \E over \in 0..1 : clock' = clock + (DefaultDelay - Elapsed(t)) + over
    /\ wait_pc' = [wait_pc EXCEPT ![t] = "checked"]
    /\ UNCHANGED <<pc, lock, last_request, wait_domain, wait_now, waits_done, coreVars, fetchVars, quoteVars>>

\* elapsed >= self.default_delay: no sleep
WaitNoSleep(t) ==
    /\ pc = "rate_calls"
    /\ wait_pc[t] = "read"
    /\ Elapsed(t) >= DefaultDelay
    /\ wait_pc' = [wait_pc EXCEPT ![t] = "checked"]
    /\ UNCHANGED <<pc, clock, lock, last_request, wait_domain, wait_now, waits_done,
                   coreVars, fetchVars, quoteVars>>

\* self._last_request[domain] = time.time(), and the lock is released
WaitRecord(t) ==
    /\ pc = "rate_calls"
    /\ wait_pc[t] = "checked"
    /\ last_request' = [last_request EXCEPT ![wait_domain[t]] = clock]
    /\ lock' = 0
    /\ wait_pc' = [wait_pc EXCEPT ![t] = "idle"]
    /\ waits_done' = waits_done + 1
    /\ UNCHANGED <<pc, clock, wait_domain, wait_now, coreVars, fetchVars, quoteVars>>

NextRate ==
    \/ Tick
    \/ \E t \in Threads :
          \/ WaitCall(t) \/ WaitEnter(t) \/ WaitReadClock(t)
          \/ WaitSleep(t) \/ WaitNoSleep(t) \/ WaitRecord(t)

SpecRate == InitRate /\ [][NextRate]_vars

(***************************************************************************)
(* ArticleCrawler._crawl_single and _fetch_with_retry:                     *)
(* src/scraper/article_crawler.py.  A request either gives a response or   *)
(* raises a requests.RequestException.                                     *)
(***************************************************************************)
MaxRetries == 4
MaxBackoff == 3

\* the response of the request of an attempt, and the error it raised
Response(k) == [kind |-> "response", attempt |-> k]
RequestError(k) == [kind |-> "request error", attempt |-> k]

\* raise RuntimeError("unreachable")
UnreachableError == [kind |-> "runtime error", attempt |-> 0]

\* what the parser raised
ParseError == [kind |-> "parse error", attempt |-> 0]

InitFetch ==
    /\ pc = "fetch_loop"
    /\ max_retries \in 0..MaxRetries
    /\ backoff \in 1..MaxBackoff
    /\ description \in BOOLEAN
    /\ attempt = 0
    /\ requests = <<>>
    /\ sleeps = <<>>
    /\ fetch_result = None
    /\ article = None
    /\ CoreIdle
    /\ RateIdle
    /\ QuoteIdle

\* resp = self.session.get(...); resp.raise_for_status(); return resp
FetchResponse ==
    /\ pc = "fetch_loop"
    /\ attempt < max_retries
    /\ requests' = Append(requests, "response")
    /\ fetch_result' = Response(attempt)
    /\ pc' = "fetch_returned"
    /\ UNCHANGED <<max_retries, backoff, description, attempt, sleeps, article,
                   coreVars, rateVars, quoteVars>>

\* the request raises a requests.RequestException
FetchError ==
    /\ pc = "fetch_loop"
    /\ attempt < max_retries
    /\ requests' = Append(requests, "request error")
    /\ pc' = "fetch_except"
    /\ UNCHANGED <<max_retries, backoff, description, attempt, sleeps, fetch_result,
                   article, coreVars, rateVars, quoteVars>>

\* The process sleeps after the last attempt too, then raises.
FetchReraiseAfterSleep ==
    /\ pc = "fetch_except"
    /\ attempt = max_retries - 1
    /\ sleeps' = Append(sleeps, [after |-> attempt, wait |-> backoff ^ attempt])
    /\ fetch_result' = RequestError(attempt)
    /\ pc' = "fetch_raised"
    /\ UNCHANGED <<max_retries, backoff, description, attempt, requests, article,
                   coreVars, rateVars, quoteVars>>

\* if attempt == max_retries - 1: raise
FetchReraise ==
    /\ pc = "fetch_except"
    /\ attempt = max_retries - 1
    /\ fetch_result' = RequestError(attempt)
    /\ pc' = "fetch_raised"
    /\ UNCHANGED <<max_retries, backoff, description, attempt, requests, sleeps,
                   article, coreVars, rateVars, quoteVars>>

\* wait = backoff ** attempt; time.sleep(wait), and the next attempt
FetchSleep ==
    /\ pc = "fetch_except"
    /\ attempt # max_retries - 1
    /\ sleeps' = Append(sleeps, [after |-> attempt, wait |-> backoff ^ attempt])
    /\ attempt' = attempt + 1
    /\ pc' = "fetch_loop"
    /\ UNCHANGED <<max_retries, backoff, description, requests, fetch_result, article,
                   coreVars, rateVars, quoteVars>>

\* the for loop ends without a request: raise RuntimeError("unreachable")
FetchUnreachable ==
    /\ pc = "fetch_loop"
    /\ attempt >= max_retries
    /\ fetch_result' = UnreachableError
    /\ pc' = "fetch_raised"
    /\ UNCHANGED <<max_retries, backoff, description, attempt, requests, sleeps,
                   article, coreVars, rateVars, quoteVars>>

\* the Article of the except branch of _crawl_single for the error e
FailedArticle(e) ==
    [kind |-> "article", crawl_success |-> FALSE, crawl_error |-> e,
     content |-> IF description THEN "description" ELSE "none"]

\* the response is parsed: article.content = content; crawl_success = True
CrawlParsed ==
    /\ pc = "fetch_returned"
    /\ article' = [kind |-> "article", crawl_success |-> TRUE, crawl_error |-> None,
                   content |-> "parsed"]
    /\ pc' = "crawl_done"
    /\ UNCHANGED <<max_retries, backoff, description, attempt, requests, sleeps,
                   fetch_result, coreVars, rateVars, quoteVars>>

\* the parser raises: except Exception as e
CrawlParseFailed ==
    /\ pc = "fetch_returned"
    /\ article' = FailedArticle(ParseError)
    /\ pc' = "crawl_done"
    /\ UNCHANGED <<max_retries, backoff, description, attempt, requests, sleeps,
                   fetch_result, coreVars, rateVars, quoteVars>>

\* _fetch_with_retry raised: except Exception as e
CrawlFetchFailed ==
    /\ pc = "fetch_raised"
    /\ article' = FailedArticle(fetch_result)
    /\ pc' = "crawl_done"
    /\ UNCHANGED <<max_retries, backoff, description, attempt, requests, sleeps,
                   fetch_result, coreVars, rateVars, quoteVars>>

NextFetch ==
    \/ FetchResponse \/ FetchError \/ FetchReraise \/ FetchSleep \/ FetchUnreachable
    \/ CrawlParsed \/ CrawlParseFailed \/ CrawlFetchFailed

SpecFetch == InitFetch /\ [][NextFetch]_vars

(***************************************************************************)
(* QuotesPicker: src/content/quotes_picker.py.  Dates are day numbers,     *)
(* ordered as their YYYY-MM-DD texts are.                                  *)
(***************************************************************************)
MaxQuotes == 3
MaxPicks == 4
MaxDate == 3

Last(s) == s[Len(s)]

Quote(id, used_dates) == [kind |-> "quote", id |-> id, used_dates |-> used_dates]

\* sorted_by_last[0] of an empty list
IndexError == [kind |-> "index error"]

\* a quotes file: quotes numbered in order, each never used or used on day 0
QuoteFiles ==
    UNION {{[i \in 1..n |-> Quote(i, u[i])] : u \in [1..n -> {<<>>, <<0>>}]} :
               n \in 0..MaxQuotes}

\* today_used and unused, as lists of positions in the file
TodayUsed(date) == {i \in 1..Len(quotes) : date \in Range(quotes[i].used_dates)}

Unused == {i \in 1..Len(quotes) : quotes[i].used_dates = <<>>}

\* sorted(quotes, key=last used date)[0]: the first quote of the file among
\* those whose last date is the least
OldestUsed ==
    SetMin({i \in 1..Len(quotes) :
               \A j \in 1..Len(quotes) :
                   Last(quotes[i].used_dates) <= Last(quotes[j].used_dates)})

\* The quote whose first use is the earliest.
OldestByFirstUse ==
    SetMin({i \in 1..Len(quotes) :
               \A j \in 1..Len(quotes) :
                   quotes[i].used_dates[1] <= quotes[j].used_dates[1]})

\* selected.setdefault("used_dates", []).append(date); self._save(quotes)
RecordUse(i, date) ==
    /\ quotes' = [quotes EXCEPT ![i].used_dates = Append(@, date)]
    /\ picked' = Quote(quotes[i].id, Append(quotes[i].used_dates, date))

InitQuotes ==
    /\ pc = "quotes_picks"
    /\ quotes \in QuoteFiles
    /\ pick_date = 0
    /\ picked = None
    /\ picks = 0
    /\ CoreIdle
    /\ RateIdle
    /\ FetchIdle

\* pick(date) begins
PickBegins(date) ==
    /\ pc = "quotes_picks"
    /\ picks < MaxPicks
    /\ picks' = picks + 1
    /\ pick_date' = date
    /\ UNCHANGED <<pc, coreVars, rateVars, fetchVars>>

\* if today_used: return today_used[0]
PickToday(date) ==
    /\ PickBegins(date)
    /\ TodayUsed(date) # {}
    /\ picked' = quotes[SetMin(TodayUsed(date))]
    /\ UNCHANGED quotes

\* selected = random.choice(unused)
PickUnused(date) ==
    /\ PickBegins(date)
    /\ TodayUsed(date) = {}
    /\ \E i \in Unused : RecordUse(i, date)

\* The quote used first of all is taken.
PickOldestByFirstUse(date) ==
    /\ PickBegins(date)
    /\ TodayUsed(date) = {}
    /\ Unused = {}
    /\ quotes # <<>>
    /\ RecordUse(OldestByFirstUse, date)

\* selected = sorted_by_last[0]
PickOldest(date) ==
    /\ PickBegins(date)
    /\ TodayUsed(date) = {}
    /\ Unused = {}
    /\ quotes # <<>>
    /\ RecordUse(OldestUsed, date)

\* sorted_by_last[0] of an empty file raises IndexError
PickNoQuotes(date) ==
    /\ PickBegins(date)
    /\ quotes = <<>>
    /\ picked' = IndexError
    /\ UNCHANGED quotes

NextQuotes ==
    \E date \in 1..MaxDate :
        PickToday(date) \/ PickUnused(date) \/ PickOldest(date) \/ PickNoQuotes(date)

SpecQuotes == InitQuotes /\ [][NextQuotes]_vars

(***************************************************************************)
(* Claims about the allocator (checked under SpecAlloc)                    *)
(***************************************************************************)
RangeStart(i) == ranges[i][1]
RangeEnd(i) == ranges[i][2]

\* C1: for N >= 1 segments (here with non-empty summaries),
\* total_duration_ms > title_duration_ms and any boundaries, every returned range has start_ms <= end_ms, no two ranges
\* overlap, the range ends never decrease and never exceed total_duration_ms.
C1_RangesOrderedDisjoint ==
    (/\ pc = "alloc_done"
     /\ Len(segments) >= 1
     /\ \A i \in 1..Len(segments) : segments[i] > 0
     /\ total_duration_ms > title_duration_ms) =>
        /\ \A i \in 1..Len(ranges) : RangeStart(i) <= RangeEnd(i)
        /\ \A i \in 1..Len(ranges) : RangeEnd(i) <= total_duration_ms
        /\ \A i, j \in 1..Len(ranges) :
              i < j => (RangeEnd(i) <= RangeEnd(j) /\ RangeEnd(i) <= RangeStart(j))

\* C2: with boundaries supplied, a non-last segment whose proportional share
\* is positive never gets a zero- or negative-length range: a snap that would
\* land at or before the cursor is clamped forward, so end_ms > start_ms.
C2_SnapNeverUnderflows ==
    (pc = "alloc_done" /\ word_boundaries # <<>>) =>
        \A i \in 1..(Len(segments) - 1) :
            SegmentDuration(segments, i, total_duration_ms, title_duration_ms) > 0
                => RangeEnd(i) > RangeStart(i)

\* C3: the ranges cover the timeline end to end for every input: one range
\* per segment, the first starts at title_duration_ms, each later one starts
\* at the previous end, the last ends at total_duration_ms; no segments give
\* the single range (title_duration_ms, total_duration_ms).
C3_RangesContiguousCover ==
    pc = "alloc_done" =>
        /\ segments = <<>> => ranges = << <<title_duration_ms, total_duration_ms>> >>
        /\ segments # <<>> => Len(ranges) = Len(segments)
        /\ RangeStart(1) = title_duration_ms
        /\ \A i \in 2..Len(ranges) : RangeStart(i) = RangeEnd(i - 1)
        /\ RangeEnd(Len(ranges)) = total_duration_ms

\* C3's case: several segments, boundaries supplied, a snap that moved an end
\* back before its own start, and still a contiguous cover.
C3_Witness ==
    /\ pc = "alloc_done"
    /\ Len(segments) >= 2
    /\ word_boundaries # <<>>
    /\ \E i \in 1..Len(ranges) : RangeEnd(i) < RangeStart(i)

(***************************************************************************)
(* Claims about the deduplicator (checked under SpecDedup)                 *)
(***************************************************************************)
CanonUrl(i) == NormalizeUrl(entries[i].url)
EntryTokens(i) == Tokens(NormalizeTitle(entries[i].title))

\* the history articles whose URLs, and those whose titles, the call has loaded
History == LookbackArticles(store, today, 0, lookback_days)
TitleHistory == LookbackArticles(store, titles_today, 0, lookback_days)
HistoryUrls == {NormalizeUrl(a.url) : a \in Range(History)}
HistoryTokens == {Tokens(NormalizeTitle(a.rss_title)) : a \in Range(TitleHistory)}
NoHistory == History = <<>> /\ TitleHistory = <<>>

\* |A n B| / |A u B| < thr, the similarity against an empty set being 0
SimilarityBelow(A, B, thr) ==
    Cardinality(A \cap B) * thr[2]
        < thr[1] * (IF A \cup B = {} THEN 1 ELSE Cardinality(A \cup B))

\* The entries at the positions P, in input order.
RECURSIVE EntriesAt(_, _)
EntriesAt(P, i) ==
    IF i > Len(entries) THEN <<>>
    ELSE (IF i \in P THEN <<entries[i]>> ELSE <<>>) \o EntriesAt(P, i + 1)

\* C4 as stated: item i is kept iff (a) and (b), (b) comparing with every title.
RECURSIVE KeptAsClaimed(_)
KeptAsClaimed(i) ==
    /\ CanonUrl(i) \notin HistoryUrls
    /\ \A j \in 1..(i - 1) : KeptAsClaimed(j) => CanonUrl(j) # CanonUrl(i)
    /\ \A T \in HistoryTokens : SimilarityBelow(EntryTokens(i), T, threshold)
    /\ \A j \in 1..(i - 1) :
          KeptAsClaimed(j) => SimilarityBelow(EntryTokens(i), EntryTokens(j), threshold)

\* C4 (as stated): filter_duplicates keeps an item iff its canonical URL is new
\* (history, earlier kept items) and its title's similarity is strictly below
\* the threshold against every history title and every earlier kept title.
C4_KeptIffAsClaimed ==
    pc = "dedup_done" =>
        unique = EntriesAt({i \in 1..Len(entries) : KeptAsClaimed(i)}, 1)

\* C4 amended: a title without tokens matches nothing and nothing matches it.
RECURSIVE KeptAmended(_)
KeptAmended(i) ==
    /\ CanonUrl(i) \notin HistoryUrls
    /\ \A j \in 1..(i - 1) : KeptAmended(j) => CanonUrl(j) # CanonUrl(i)
    /\ \/ EntryTokens(i) = {}
       \/ /\ \A T \in HistoryTokens \ {{}} :
                SimilarityBelow(EntryTokens(i), T, threshold)
          /\ \A j \in 1..(i - 1) :
                (KeptAmended(j) /\ EntryTokens(j) # {})
                    => SimilarityBelow(EntryTokens(i), EntryTokens(j), threshold)

\* C4 (amended): an item is kept iff its canonical URL is new and its title
\* either has no tokens or is strictly below the threshold against every
\* history title and earlier kept title that has tokens; dropped items are
\* not remembered.
C4_KeptIffAmended ==
    pc = "dedup_done" =>
        unique = EntriesAt({i \in 1..Len(entries) : KeptAmended(i)}, 1)

\* C4's case: threshold 0, a kept item whose title has no tokens, a dropped one.
C4_Witness ==
    /\ pc = "dedup_done"
    /\ threshold = <<0, 1>>
    /\ History # <<>>
    /\ TitleHistory # <<>>
    /\ Len(unique) < Len(entries)
    /\ \E k \in 1..Len(unique) : Tokens(NormalizeTitle(unique[k].title)) = {}

\* The canonical URL as the data model defines it: one scheme, no fragment,
\* tracking parameters stripped (the others kept), trailing slash trimmed.
CanonicalAsSpecified(u) ==
    <<u.netloc, RStripSlash(u.path),
      SelectSeq(u.query, LAMBDA p : p.key \notin TrackingParams)>>

\* C5: only tracking parameters are stripped: an entry is dropped as a URL
\* duplicate only when a history article or an earlier kept entry has the same
\* URL up to scheme, fragment, tracking parameters and trailing slash; URLs
\* that differ in another query parameter are not duplicates of each other.
C5_OnlyTrackingParamsStripped ==
    (pc = "dedup_loop" /\ pos <= Len(entries)
        /\ NormalizeUrl(entries[pos].url) \in seen_urls \cup batch_urls) =>
        \/ \E a \in Range(History) :
              CanonicalAsSpecified(a.url) = CanonicalAsSpecified(entries[pos].url)
        \/ \E k \in 1..Len(unique) :
              CanonicalAsSpecified(unique[k].url) = CanonicalAsSpecified(entries[pos].url)

\* Entries a and b of the batch whose URLs differ, but only in scheme, fragment,
\* tracking parameters or trailing slash, a first.
FirstPos(e) == CHOOSE i \in 1..Len(entries) :
                   entries[i] = e /\ \A j \in 1..(i - 1) : entries[j] # e

Variants(a, b) ==
    /\ a.url # b.url
    /\ CanonicalAsSpecified(a.url) = CanonicalAsSpecified(b.url)
    /\ FirstPos(a) < FirstPos(b)

\* C6 (as stated): such URLs have one canonical URL, and with empty history
\* (and a positive threshold) exactly one of the two entries is kept, the
\* first in input order.
C6_VariantsKeepFirst ==
    \A a, b \in Range(entries) :
        Variants(a, b) =>
            /\ NormalizeUrl(a.url) = NormalizeUrl(b.url)
            /\ (pc = "dedup_done" /\ NoHistory /\ threshold[1] > 0)
                  => (a \in Range(unique) /\ b \notin Range(unique))

\* No item before the first occurrence of a has a's canonical URL or a title
\* that matches a's.
NothingEarlierMatches(a) ==
    \A k \in 1..(FirstPos(a) - 1) :
        /\ CanonUrl(k) # NormalizeUrl(a.url)
        /\ ~IsSimilar(NormalizeTitle(a.title), <<NormalizeTitle(entries[k].title)>>,
                      threshold)

\* C6 (amended): such URLs have one canonical URL and the two entries are
\* never both kept; with empty history the first is kept and the second
\* dropped whenever no earlier item of the batch has the first one's canonical
\* URL or a matching title (as when the two are the whole batch).
C6_VariantsNeverBoth ==
    \A a, b \in Range(entries) :
        Variants(a, b) =>
            /\ NormalizeUrl(a.url) = NormalizeUrl(b.url)
            /\ pc = "dedup_done" => ~(a \in Range(unique) /\ b \in Range(unique))
            /\ (pc = "dedup_done" /\ NoHistory /\ NothingEarlierMatches(a))
                  => (a \in Range(unique) /\ b \notin Range(unique))

\* C6's case: empty history, two variants in the batch, the first one kept.
C6_Witness ==
    /\ pc = "dedup_done"
    /\ NoHistory
    /\ \E a, b \in Range(entries) :
          Variants(a, b) /\ a \in Range(unique) /\ b \notin Range(unique)

RECURSIVE IsSubsequence(_, _)
IsSubsequence(u, e) ==
    IF u = <<>> THEN TRUE
    ELSE IF e = <<>> THEN FALSE
    ELSE IF Head(u) = Head(e) THEN IsSubsequence(Tail(u), Tail(e))
    ELSE IsSubsequence(u, Tail(e))

\* C7: the returned list is a subsequence of the batch (only batch items, each
\* input position used at most once, input order kept), and the batch itself
\* is never modified.
C7_UniqueIsSubsequence ==
    /\ [](IsSubsequence(unique, entries))
    /\ [][entries' = entries]_vars

\* C7's case: a returned list of several items with some item dropped between.
C7_Witness ==
    /\ pc = "dedup_done"
    /\ Len(unique) >= 2
    /\ Len(unique) < Len(entries)
    /\ unique[1] # entries[1]

(***************************************************************************)
(* Claims about the caption segmenter (checked under SpecSubs)             *)
(***************************************************************************)
\* The cue an entry came from was split: its trimmed text exceeds max_chars.
FromSplitCue(k) == Len(Strip(cues[entry_cue[k]].text)) > chars_per_segment

\* The entries of cue c, once the loop has passed it.
EntriesOfCue(c) == {k \in 1..Len(sub_entries) : entry_cue[k] = c}

RECURSIVE SumOver(_, _)
SumOver(S, f) ==
    IF S = {} THEN 0
    ELSE LET x == CHOOSE x \in S : TRUE IN f[x] + SumOver(S \ {x}, f)

EntryDurations == [k \in 1..Len(sub_entries) |->
                      sub_entries[k].end_ms - sub_entries[k].start_ms]

\* C8: every entry of a split cue has non-empty text of at most max_chars
\* characters.
C8_ChunksWithinMaxChars ==
    \A k \in 1..Len(sub_entries) :
        FromSplitCue(k) =>
            (Len(sub_entries[k].text) >= 1 /\ Len(sub_entries[k].text) <= chars_per_segment)

\* C9: the chunk durations of a split cue sum to at most duration_ms and fall
\* short of it by no more than the number of chunks.
C9_ChunkDurationsSum ==
    \A c \in 1..(cue_pos - 1) :
        (c <= Len(cues) /\ Len(Strip(cues[c].text)) > chars_per_segment) =>
            LET total == SumOver(EntriesOfCue(c), EntryDurations)
            IN  /\ total <= cues[c].duration_ms
                /\ cues[c].duration_ms - total <= Cardinality(EntriesOfCue(c))

\* C10: every emitted entry has start_ms < end_ms, whatever the cue's
\* (positive) duration_ms and however many chunks it is split into.
C10_EntriesHavePositiveLength ==
    \A k \in 1..Len(sub_entries) :
        cues[entry_cue[k]].duration_ms > 0
            => sub_entries[k].start_ms < sub_entries[k].end_ms

\* The texts of the entries at the positions lo..hi, concatenated in order.
RECURSIVE ConcatTexts(_, _)
ConcatTexts(lo, hi) ==
    IF lo > hi THEN <<>> ELSE sub_entries[lo].text \o ConcatTexts(lo + 1, hi)

\* C11: the entries of one split cue are contiguous in time: they are
\* consecutive in the list, the first starts at cue.offset_ms, each following
\* one starts exactly at the previous one's end_ms, and their texts follow
\* one another in the cue's text.
C11_SplitCueContiguous ==
    \A c \in 1..(cue_pos - 1) :
        (c <= Len(cues) /\ Len(Strip(cues[c].text)) > chars_per_segment) =>
            LET E == EntriesOfCue(c)
                lo == SetMin(E)
                hi == SetMax(E)
            IN  /\ E # {}
                /\ E = lo..hi
                /\ sub_entries[lo].start_ms = cues[c].offset_ms
                /\ \A k \in (lo + 1)..hi :
                      /\ sub_entries[k].start_ms = sub_entries[k - 1].end_ms
                      /\ sub_entries[k].index = sub_entries[k - 1].index + 1
                /\ IsSubsequence(ConcatTexts(lo, hi), cues[c].text)

\* C11's case: a cue that starts after time 0 was split into several entries,
\* each of positive length.
C11_Witness ==
    /\ pc = "subs_done"
    /\ \E c \in 1..Len(cues) :
          /\ cues[c].offset_ms > 0
          /\ Cardinality(EntriesOfCue(c)) >= 3
          /\ \A k \in EntriesOfCue(c) : sub_entries[k].end_ms > sub_entries[k].start_ms

(***************************************************************************)
(* Further claims about the allocator (checked under SpecAlloc)            *)
(***************************************************************************)
AvailableMs == total_duration_ms - title_duration_ms

\* C12: when every summary is empty (total length zero) the available time
\* total_duration_ms - title_duration_ms is distributed equally: every
\* non-last segment receives floor(available_ms / N), not zero.
C12_EmptySummariesShareEqually ==
    (/\ pc = "alloc_done"
     /\ Len(segments) >= 2
     /\ \A i \in 1..Len(segments) : segments[i] = 0
     /\ word_boundaries = <<>>
     /\ AvailableMs > 0) =>
        \A i \in 1..(Len(segments) - 1) :
            RangeEnd(i) - RangeStart(i) = AvailableMs \div Len(segments)

\* end_ms of segment i before snapping: the cursor plus the segment's share
Tentative(i) ==
    RangeStart(i) + SegmentDuration(segments, i, total_duration_ms, title_duration_ms)

BoundaryEnds == {BoundaryEnd(word_boundaries[k]) : k \in 1..Len(word_boundaries)}

\* C13: with boundaries supplied, a non-last segment's end is the boundary end
\* nearest to its tentative end when that boundary is within snap_tolerance_ms
\* of it (difference <= tolerance), and the tentative end itself when no
\* boundary is; the last segment's end is total_duration_ms, never snapped.
C13_SnapNearestWithinTolerance ==
    (pc = "alloc_done" /\ segments # <<>> /\ word_boundaries # <<>>) =>
        /\ \A i \in 1..(Len(segments) - 1) :
              IF \E b \in BoundaryEnds : Abs(b - Tentative(i)) <= SnapToleranceMs
              THEN /\ RangeEnd(i) \in BoundaryEnds
                   /\ \A b \in BoundaryEnds :
                         Abs(RangeEnd(i) - Tentative(i)) <= Abs(b - Tentative(i))
              ELSE RangeEnd(i) = Tentative(i)
        /\ RangeEnd(Len(segments)) = total_duration_ms

\* C13's case: one end snapped to a boundary exactly snap_tolerance_ms away,
\* another left alone for want of a boundary in reach, and a last end that
\* stays at total_duration_ms although a boundary is in reach of it; every
\* boundary lies inside the audio.
C13_Witness ==
    /\ pc = "alloc_done"
    /\ Len(segments) = 3
    /\ \E i \in 1..2 :
          /\ RangeEnd(i) \in BoundaryEnds
          /\ Abs(RangeEnd(i) - Tentative(i)) = SnapToleranceMs
    /\ \E i \in 1..2 :
          /\ RangeEnd(i) = Tentative(i)
          /\ \A b \in BoundaryEnds : Abs(b - Tentative(i)) > SnapToleranceMs
    /\ \A b \in BoundaryEnds : b <= total_duration_ms
    /\ \E b \in BoundaryEnds :
          b # total_duration_ms /\ Abs(b - total_duration_ms) <= SnapToleranceMs

\* floor(available_ms * len(summary_i) / sum_j len(summary_j))
ExactShare(i) == (AvailableMs * segments[i]) \div SumSeq(segments)

ShareIsWhole(i) == (AvailableMs * segments[i]) % SumSeq(segments) = 0

RangeLen(i) == RangeEnd(i) - RangeStart(i)

NoBoundariesCall ==
    /\ pc = "alloc_done"
    /\ word_boundaries = <<>>
    /\ SumSeq(segments) > 0
    /\ AvailableMs >= 0

MinuteRanges == << <<0, 10000>>, <<10000, 30000>>, <<30000, 60000>> >>

IsMinuteCall ==
    /\ segments = MinuteCall.segments
    /\ total_duration_ms = MinuteCall.total_duration_ms
    /\ title_duration_ms = MinuteCall.title_duration_ms

\* C14 (as stated): without boundaries every non-last segment receives
\* exactly floor(available_ms * len_i / sum_j len_j) milliseconds and the last
\* one absorbs the remainder; lengths 10, 20, 30 with total 60000 and title 0
\* give (0,10000), (10000,30000), (30000,60000).
C14_SharesAreExactFloor ==
    NoBoundariesCall =>
        /\ \A i \in 1..(Len(segments) - 1) : RangeLen(i) = ExactShare(i)
        /\ RangeEnd(Len(segments)) = total_duration_ms
        /\ IsMinuteCall => ranges = MinuteRanges

\* C14 (amended): the share is the double-precision product
\* int(available_ms * (len_i / sum)) : it equals the exact floor whenever
\* available_ms * len_i / sum is not a whole number, and is the floor or one
\* millisecond less when it is; the last segment absorbs what is left; the
\* 10, 20, 30 example gives exactly the stated ranges.
C14_SharesWithinOneOfFloor ==
    NoBoundariesCall =>
        /\ \A i \in 1..(Len(segments) - 1) :
              /\ RangeLen(i) <= ExactShare(i)
              /\ RangeLen(i) >= ExactShare(i) - 1
              /\ ~ShareIsWhole(i) => RangeLen(i) = ExactShare(i)
        /\ RangeEnd(Len(segments)) = total_duration_ms
        /\ IsMinuteCall => ranges = MinuteRanges

\* C14's case: a share whose exact value is a whole number of milliseconds
\* and that comes out one millisecond short, next to one that is exact.
C14_Witness ==
    /\ NoBoundariesCall
    /\ Len(segments) = 3
    /\ \E i \in 1..2 : RangeLen(i) = ExactShare(i) - 1
    /\ \E i \in 1..2 : RangeLen(i) = ExactShare(i) /\ RangeLen(i) > 0

(***************************************************************************)
(* Claims about the functions of dedup.py (checked under SpecPure)         *)
(***************************************************************************)
\* C15: URL canonicalization is total and idempotent: for every text it
\* returns a value without raising, and canonicalizing the returned value
\* returns it unchanged.
C15_CanonTotalIdempotent ==
    call = "_normalize_url" =>
        /\ pc = "pure_returned" => ~ret.raised
        /\ pc = "pure_done" => (~ret_again.raised /\ ret_again.value = ret.value)

\* C16: title normalization is total and idempotent, and its result holds
\* only word characters and single blanks between them: no bracketed or
\* parenthesized substring, no punctuation, no leading or trailing
\* whitespace, no run of two or more whitespace characters.
C16_TitleNormalIdempotent ==
    (call = "_normalize_title" /\ pc # "pure_call") =>
        LET t == ret.value
        IN  /\ ~ret.raised
            /\ \A k \in 1..Len(t) : t[k] \in WordChars \cup {" "}
            /\ t # <<>> => (t[1] # " " /\ t[Len(t)] # " ")
            /\ \A k \in 1..(Len(t) - 1) : ~(t[k] = " " /\ t[k + 1] = " ")
            /\ pc = "pure_done" => ret_again = ret

\* C16's case: a title with a bracketed part, punctuation and a line break
\* normalizes to a non-empty text and normalizes again to the same.
C16_Witness ==
    /\ call = "_normalize_title"
    /\ pc = "pure_done"
    /\ \E i, j \in 1..Len(arg) : i < j /\ arg[i] = "[" /\ arg[j] = "]"
    /\ \E i \in 1..Len(arg) : arg[i] \in {"!", "\n"}
    /\ ret.value # <<>>

\* C18: the title match is symmetric and never matches an empty token set:
\* a is similar to b iff b is similar to a, at every threshold in [0, 1]; a
\* title without tokens is similar to nothing, and a seen title without
\* tokens makes nothing similar: a match always has a seen title with tokens
\* behind it (sharing a token when the threshold is positive).
C18_SimilarSymmetricNoEmpty ==
    (call = "_is_similar" /\ pc # "pure_call") =>
        /\ Tokens(arg.title) = {} => ~ret.value
        /\ (\A k \in 1..Len(arg.seen) : Tokens(arg.seen[k]) = {}) => ~ret.value
        /\ ret.value =>
              \E k \in 1..Len(arg.seen) :
                  /\ Tokens(arg.seen[k]) # {}
                  /\ arg.threshold[1] > 0
                        => Tokens(arg.seen[k]) \cap Tokens(arg.title) # {}
        /\ pc = "pure_done" => ret_again.value = ret.value

\* C18's case: two titles with different token sets that match in both
\* directions at threshold 1/2.
C18_Witness ==
    /\ call = "_is_similar"
    /\ pc = "pure_done"
    /\ arg.threshold = <<1, 2>>
    /\ Tokens(arg.title) # Tokens(arg.seen[1])
    /\ ret.value
    /\ ret_again.value

(***************************************************************************)
(* Further claims about the deduplicator (checked under SpecDedup)         *)
(***************************************************************************)
\* Entries a and b of the batch, a first, whose normalized titles have the
\* same, non-empty set of tokens.
SameTitleTokens(a, b) ==
    /\ a # b
    /\ FirstPos(a) < FirstPos(b)
    /\ Tokens(NormalizeTitle(a.title)) = Tokens(NormalizeTitle(b.title))
    /\ Tokens(NormalizeTitle(a.title)) # {}

\* The first occurrence of a is not dropped as a URL duplicate.
UrlIsNew(a) ==
    /\ NormalizeUrl(a.url) \notin HistoryUrls
    /\ \A k \in 1..(FirstPos(a) - 1) :
          entries[k] \in Range(unique) => CanonUrl(k) # NormalizeUrl(a.url)

\* C17 (as stated): two titles with identical non-empty token sets have
\* similarity 1.0, so the later one in the batch is dropped at every
\* threshold in (0, 1].
C17_SameTokensLaterDropped ==
    \A a, b \in Range(entries) :
        (SameTitleTokens(a, b) /\ threshold[1] > 0) =>
            /\ IsSimilar(NormalizeTitle(b.title), <<NormalizeTitle(a.title)>>, <<1, 1>>)
            /\ pc = "dedup_done" => b \notin Range(unique)

\* C17 (amended): such titles have similarity 1.0 and the two items are never
\* both kept; the later one is dropped whenever the earlier one was kept or
\* was itself dropped for its title, that is, whenever the earlier one is not
\* a URL duplicate.
C17_SameTokensNeverBoth ==
    \A a, b \in Range(entries) :
        (SameTitleTokens(a, b) /\ threshold[1] > 0) =>
            /\ IsSimilar(NormalizeTitle(b.title), <<NormalizeTitle(a.title)>>, <<1, 1>>)
            /\ pc = "dedup_done" => ~(a \in Range(unique) /\ b \in Range(unique))
            /\ (pc = "dedup_done" /\ UrlIsNew(a)) => b \notin Range(unique)

\* C17's case: a title and the same title behind a bracketed tag, under
\* different URLs, at threshold 1: the first is kept, the second dropped.
C17_Witness ==
    /\ pc = "dedup_done"
    /\ threshold = <<1, 1>>
    /\ \E a, b \in Range(entries) :
          /\ SameTitleTokens(a, b)
          /\ a.title # b.title
          /\ NormalizeUrl(a.url) # NormalizeUrl(b.url)
          /\ a \in Range(unique)
          /\ b \notin Range(unique)

IsPrefix(p, q) == Len(p) <= Len(q) /\ SubSeq(q, 1, Len(p)) = p

\* One date's list was extended: the other dates are as before, the date's
\* former list is a prefix of the new one, and what follows it are kept,
\* crawled entries whose id was not stored under the date.
ExtendedAt(date) ==
    LET before == LoadArticles(store, date)
        after == LoadArticles(store', date)
    IN  /\ \A d \in DOMAIN store \ {date} : store'[d] = store[d]
        /\ IsPrefix(before, after)
        /\ \A k \in (Len(before) + 1)..Len(after) :
              /\ after[k] \in Range(CrawlArticles(unique))
              /\ \A j \in 1..Len(before) : ArticleId(before[j]) # ArticleId(after[k])
        /\ \A a \in Range(CrawlArticles(unique)) :
              (\A j \in 1..Len(before) : ArticleId(before[j]) # ArticleId(a))
                  => a \in Range(after)

\* C19: the stored history is only ever extended: no step of
\* filter_duplicates changes the stored list of any date, and save_articles
\* leaves every other date unchanged and keeps the date's stored list as a
\* prefix, appending exactly the articles whose id was not stored already.
C19_HistoryOnlyExtended ==
    [][/\ DOMAIN store' = DOMAIN store
       /\ pc' # "scrape_saved" => store' = store
       /\ pc' = "scrape_saved" => \E date \in DOMAIN store : ExtendedAt(date)]_vars

\* C19's case: articles were saved under a date that already held one; one
\* of them was appended after it, another was left out for its stored id.
C19_Witness ==
    /\ pc = "scrape_saved"
    /\ \E d \in DOMAIN store :
          /\ Len(LoadArticles(store, d)) >= 2
          /\ store[d][1] \notin Range(CrawlArticles(unique))
          /\ \E a \in Range(CrawlArticles(unique)) :
                a \notin Range(store[d]) /\ ArticleId(a) = ArticleId(store[d][1])

\* The days today, today - 1, ..., today - (N - 1) for today = day.
WindowDays(day, N) == {d \in DOMAIN store : day - N < d /\ d <= day}

\* The articles stored under the days of the window.
WindowArticles(day, N) == UNION {Range(LoadArticles(store, d)) : d \in WindowDays(day, N)}

\* The loaded history is the window's, for the current day being day.
HistoryIsWindowOf(day) ==
    /\ seen_urls = {NormalizeUrl(a.url) : a \in WindowArticles(day, lookback_days)}
    /\ Range(seen_titles) =
           {NormalizeTitle(a.rss_title) : a \in WindowArticles(day, lookback_days)}

\* C20: with lookback_days = N the history one filter_duplicates call uses
\* is exactly what is stored for the N most recent calendar days, the
\* current day included; what is stored under another date plays no part.
C20_HistoryIsLookbackWindow ==
    pc \in {"dedup_loop", "dedup_done"} =>
        (HistoryIsWindowOf(today) \/ HistoryIsWindowOf(titles_today))

\* The days of the window of N days ending at day that have a stored file.
StoredDays(day, N) == {d \in WindowDays(day, N) : store[d] # NoFile}

StoredIn(day, N) == UNION {Range(store[d]) : d \in StoredDays(day, N)}

\* Deduplication within the batch alone: the loop of filter_duplicates from
\* entry i on with nothing seen before the batch.
RECURSIVE WithinBatch(_, _, _)
WithinBatch(i, urls, titles) ==
    IF i > Len(entries) THEN <<>>
    ELSE LET norm_url == NormalizeUrl(entries[i].url)
             norm_title == NormalizeTitle(entries[i].title)
         IN  IF norm_url \in urls \/ IsSimilar(norm_title, titles, threshold)
             THEN WithinBatch(i + 1, urls, titles)
             ELSE <<entries[i]>>
                      \o WithinBatch(i + 1, urls \cup {norm_url}, Append(titles, norm_title))

\* C21: a missing history source is an empty history, not an error: when
\* some or all lookback days have no stored file the loaders return all the
\* same, the missing days contribute no URLs or titles (what is seen is what
\* the days with a file hold), and with no stored day at all the result
\* equals deduplication within the batch alone.
C21_MissingHistoryIsEmpty ==
    pc \in {"dedup_loop", "dedup_done"} =>
          /\ seen_urls = {NormalizeUrl(a.url) : a \in StoredIn(today, lookback_days)}
          /\ Range(seen_titles) =
                 {NormalizeTitle(a.rss_title) : a \in StoredIn(titles_today, lookback_days)}
          /\ (\A d \in DOMAIN store : store[d] = NoFile) =>
                 /\ seen_urls = {}
                 /\ seen_titles = <<>>
                 /\ pc = "dedup_done" => unique = WithinBatch(1, {}, <<>>)

\* C21's case: the current day has no file, the day before has one, and an
\* entry of the batch was dropped for what that file holds.
C21_Witness ==
    /\ pc = "dedup_done"
    /\ lookback_days = 2
    /\ store[today] = NoFile
    /\ store[today - 1] # NoFile
    /\ seen_urls # {}
    /\ unique # WithinBatch(1, {}, <<>>)

\* C21's other case: no day has a file and the batch lost a duplicate of its own.
C21_WitnessNoFiles ==
    /\ pc = "dedup_done"
    /\ lookback_days = 2
    /\ \A d \in DOMAIN store : store[d] = NoFile
    /\ unique # <<>>
    /\ Len(unique) < Len(entries)

(***************************************************************************)
(* Further claims about the caption segmenter (checked under SpecSubs)     *)
(***************************************************************************)
TrimmedText(c) == Strip(cues[c].text)

\* C22: a cue whose trimmed text is empty contributes no entry; a cue whose
\* trimmed text has between 1 and max_chars characters contributes exactly
\* one entry, with start_ms = offset_ms, end_ms = offset_ms + duration_ms and
\* the trimmed text; an empty cue list yields an empty result.
C22_BlankNoneShortOne ==
    /\ \A c \in 1..(cue_pos - 1) :
          c <= Len(cues) =>
              /\ TrimmedText(c) = <<>> => EntriesOfCue(c) = {}
              /\ (Len(TrimmedText(c)) >= 1 /\ Len(TrimmedText(c)) <= chars_per_segment) =>
                    /\ Cardinality(EntriesOfCue(c)) = 1
                    /\ \A k \in EntriesOfCue(c) :
                          /\ sub_entries[k].start_ms = cues[c].offset_ms
                          /\ sub_entries[k].end_ms = cues[c].offset_ms + cues[c].duration_ms
                          /\ sub_entries[k].text = TrimmedText(c)
    /\ (pc = "subs_done" /\ cues = <<>>) => sub_entries = <<>>

\* C22's case: a blank cue was skipped and a cue after it, whose text is
\* short once trimmed, gave one entry over its whole span.
C22_Witness ==
    /\ pc = "subs_done"
    /\ \E b, c \in 1..Len(cues) :
          /\ b < c
          /\ cues[b].text # <<>>
          /\ TrimmedText(b) = <<>>
          /\ TrimmedText(c) # cues[c].text
          /\ Len(TrimmedText(c)) = chars_per_segment
          /\ chars_per_segment >= 2
          /\ Cardinality(EntriesOfCue(c)) = 1

\* C23: the indices of the entries are exactly 1, 2, ..., n in output order,
\* counted across all cues without reset and without gaps, also when blank
\* cues are skipped and cues are split.
C23_IndicesAreSequential ==
    /\ \A k \in 1..Len(sub_entries) : sub_entries[k].index = k
    /\ pc = "subs_loop" => idx = Len(sub_entries) + 1

\* C23's case: a blank cue was skipped and the cue after it was split into at
\* least three entries.
C23_Witness ==
    /\ pc = "subs_done"
    /\ Len(cues) = 2
    /\ cues[1].text # <<>>
    /\ TrimmedText(1) = <<>>
    /\ Cardinality(EntriesOfCue(2)) >= 3

\* C23's other case: a cue gave one entry and the cue after it was split.
C23_WitnessShortThenSplit ==
    /\ pc = "subs_done"
    /\ Len(cues) = 2
    /\ Cardinality(EntriesOfCue(1)) = 1
    /\ Cardinality(EntriesOfCue(2)) >= 2

(***************************************************************************)
(* Claims about the functions of subtitle_generator.py (SpecPure)          *)
(***************************************************************************)
\* the (0-based) positions range(max_chars, max(0, max_chars - 5), -1) reads
ScannedPositions(max_chars) == (Max2(0, max_chars - ScanWindow) + 1)..max_chars

InSplitLoop == call = "_split_text" /\ pc = "split_loop"

\* C24: the splitting loop is total for max_chars >= 1: an iteration reads
\* only positions inside the remaining text, cuts at least one character
\* and at most the whole text, and leaves a strictly shorter remaining
\* text, so the loop ends and the function returns.
C24_SplitLoopShrinks ==
    /\ []((InSplitLoop /\ Len(ret.remaining) > arg.max_chars) =>
            /\ arg.max_chars >= 1
            /\ \A i \in ScannedPositions(arg.max_chars) :
                  i >= 0 /\ i < Len(ret.remaining)
            /\ SplitPos(ret.remaining, arg.max_chars) \in 1..Len(ret.remaining))
    /\ [][(InSplitLoop /\ pc' = "split_loop") =>
              /\ Len(ret'.remaining) < Len(ret.remaining)
              /\ Len(ret'.chunks) = Len(ret.chunks) + 1]_vars

\* C24's case: a call with max_chars = 1 went through the loop at least three
\* times and returned; a text that begins with a boundary character was split.
C24_Witness ==
    /\ call = "_split_text"
    /\ pc = "pure_done"
    /\ arg.max_chars = 1
    /\ arg.text[1] \in BoundaryChars
    /\ Len(ret.value) >= 3

\* int(text) for a text of decimal digits, -1 for any other text
RECURSIVE DecimalValue(_)
DecimalValue(d) ==
    IF d = <<>> \/ \E k \in 1..Len(d) : d[k] \notin Range(DecimalDigits) THEN 0 - 1
    ELSE LET last == CHOOSE v \in 0..9 : DecimalDigits[v + 1] = d[Len(d)]
         IN  IF Len(d) = 1 THEN last
             ELSE 10 * DecimalValue(SubSeq(d, 1, Len(d) - 1)) + last

\* The fields of a timecode: what stands before the first ":", between the
\* two ":", between the second ":" and the "," and after the ",".
TimecodeFields(t) ==
    LET c1 == FindFirst(t, {":"}, 1)
        c2 == FindFirst(t, {":"}, c1 + 1)
        c3 == FindFirst(t, {","}, c2 + 1)
    IN  IF c1 = 0 \/ c2 = 0 \/ c3 = 0 THEN <<>>
        ELSE <<SubSeq(t, 1, c1 - 1), SubSeq(t, c1 + 1, c2 - 1),
               SubSeq(t, c2 + 1, c3 - 1), SubSeq(t, c3 + 1, Len(t))>>

\* The fields are decimal numbers, minutes and seconds below 60 and
\* milliseconds below 1000, that add up to ms.
DecodesTo(t, ms) ==
    LET f == TimecodeFields(t)
    IN  /\ Len(f) = 4
        /\ \A k \in 1..4 : DecimalValue(f[k]) >= 0
        /\ DecimalValue(f[2]) < 60
        /\ DecimalValue(f[3]) < 60
        /\ DecimalValue(f[4]) < 1000
        /\ DecimalValue(f[1]) * 3600000 + DecimalValue(f[2]) * 60000
               + DecimalValue(f[3]) * 1000 + DecimalValue(f[4]) = ms

FieldWidths(t) == [k \in 1..Len(TimecodeFields(t)) |-> Len(TimecodeFields(t)[k])]

SrtTimeReturned == call = "_ms_to_srt_time" /\ pc = "pure_returned"

\* C25 (as stated): for every ms >= 0 the timecode is HH:MM:SS,mmm with the
\* fixed field widths 2, 2, 2 and 3, minutes and seconds below 60,
\* milliseconds below 1000, and decoding it gives back ms.
C25_TimecodeFixedWidths ==
    SrtTimeReturned =>
        /\ ~ret.raised
        /\ DecodesTo(ret.value, arg)
        /\ FieldWidths(ret.value) = <<2, 2, 2, 3>>

\* C25 (amended): the widths 2, 2, 2 and 3 are minimum widths: minutes,
\* seconds and milliseconds always have exactly 2, 2 and 3 digits, the hours
\* have exactly 2 digits below 100 hours (ms < 360000000) and as many digits
\* as the number of hours has from there on; decoding gives back ms.
C25_TimecodeHoursGrow ==
    SrtTimeReturned =>
        /\ ~ret.raised
        /\ DecodesTo(ret.value, arg)
        /\ FieldWidths(ret.value) =
               <<IF arg < 360000000 THEN 2 ELSE Len(Decimal(arg \div 3600000)), 2, 2, 3>>

\* C25's case: a time of 100 hours, 59 minutes, 59 seconds and 5
\* milliseconds, whose hours take three digits and whose millisecond field
\* is padded to 005.
C25_Witness ==
    /\ SrtTimeReturned
    /\ arg = 100 * 3600000 + 59 * 60000 + 59 * 1000 + 5
    /\ ret.value = <<"1", "0", "0", ":", "5", "9", ":", "5", "9", ",", "0", "0", "5">>

(***************************************************************************)
(* Claims about run_scrape run again (checked under SpecDedup)             *)
(***************************************************************************)
\* The second call of filter_duplicates has returned; the first run saved
\* what it kept under the day that both clock readings of the second call
\* give, and that day is in the lookback window.
RerunOnSavedDay ==
    /\ run = 2
    /\ pc = "dedup_done"
    /\ lookback_days >= 1
    /\ target_date = today
    /\ titles_today = today

\* C26: re-running deduplication after a scrape is a no-op for already
\* accepted items: when the kept items were saved under the current day and
\* lookback_days >= 1, a second filter_duplicates call on the same batch
\* returns the empty list, whether or not the crawl of an item succeeded.
C26_RerunReturnsNothing ==
    RerunOnSavedDay => unique = <<>>

\* C26's case: the batch holds an entry whose URL is not stored even after
\* the save: the first call dropped it for its title, and so did the second.
C26_Witness ==
    /\ RerunOnSavedDay
    /\ unique = <<>>
    /\ Len(entries) >= 2
    /\ \E j \in 1..Len(entries) : CanonUrl(j) \notin seen_urls

(***************************************************************************)
(* Claims about the rate limiter (checked under SpecRate)                  *)
(***************************************************************************)
\* the threads between taking the lock and releasing it
InWait == {t \in Threads : wait_pc[t] \in {"locked", "read", "checked"}}

\* C27: under any interleaving of the threads that call wait, the
\* check-sleep-record steps of one call are never interleaved with those of
\* another call (at most one thread is between taking and releasing the
\* lock, and it is the one that holds it), and two consecutive recorded
\* request times of one domain are at least default_delay apart.
C27_MinimumSpacing ==
    /\ [](Cardinality(InWait) <= 1 /\ \A t \in InWait : lock = t)
    /\ [][\A d \in DOMAIN last_request :
              (last_request'[d] # last_request[d] /\ last_request[d] # 0)
                  => last_request'[d] - last_request[d] >= DefaultDelay]_vars

\* C27's case: both threads have called wait for one domain and read the
\* clock at the same tick, one after the other; the second one slept and
\* recorded its request exactly default_delay after the first, and a third
\* call is waiting.
C27_Witness ==
    /\ pc = "rate_calls"
    /\ waits_done = 2
    /\ \A t \in Threads : wait_now[t] = StartTime
    /\ last_request["x.com"] = StartTime + DefaultDelay
    /\ last_request["y.com"] = 0
    /\ \E t \in Threads : wait_pc[t] = "called" /\ wait_domain[t] = "x.com"

(***************************************************************************)
(* Claims about the crawler's retries (checked under SpecFetch)            *)
(***************************************************************************)
FetchEnded == pc \in {"fetch_returned", "fetch_raised", "crawl_done"}

AllFailed ==
    Len(requests) = max_retries /\ \A k \in 1..Len(requests) : requests[k] = "request error"

\* C28: with max_retries = n >= 1, _fetch_with_retry issues at most n
\* requests, none after the first successful one, whose response it
\* returns; it sleeps only between attempts, never after the last; it
\* raises the last request error if and only if all n attempts fail; and
\* _crawl_single turns that error into an Article with crawl_success = False
\* and crawl_error set.
C28_RetryContract ==
    max_retries >= 1 =>
        /\ Len(requests) <= max_retries
        /\ \A k \in 1..(Len(requests) - 1) : requests[k] = "request error"
        /\ \A k \in 1..Len(sleeps) :
              /\ sleeps[k].after = k - 1
              /\ sleeps[k].wait = backoff ^ (k - 1)
              /\ requests[k] = "request error"
        /\ pc = "fetch_loop" => Len(sleeps) = Len(requests)
        /\ pc = "fetch_except" => Len(sleeps) = Len(requests) - 1
        /\ FetchEnded =>
              /\ Len(requests) >= 1
              /\ Len(sleeps) = Len(requests) - 1
              /\ fetch_result = IF AllFailed THEN RequestError(max_retries - 1)
                                ELSE Response(Len(requests) - 1)
              /\ ~AllFailed => requests[Len(requests)] = "response"
        /\ pc = "fetch_returned" => ~AllFailed
        /\ pc = "fetch_raised" => AllFailed
        /\ (pc = "crawl_done" /\ AllFailed) =>
              /\ article.crawl_success = FALSE
              /\ article.crawl_error = RequestError(max_retries - 1)
              /\ article.content = (IF description THEN "description" ELSE "none")

\* C28's case: the first attempts failed and the last of three succeeded,
\* after sleeps of 1 and backoff.
C28_Witness ==
    /\ pc = "crawl_done"
    /\ max_retries = 3
    /\ backoff = 2
    /\ requests = <<"request error", "request error", "response">>
    /\ sleeps = <<[after |-> 0, wait |-> 1], [after |-> 1, wait |-> 2]>>
    /\ article.crawl_success

\* C28's other case: all three attempts failed and the Article says so.
C28_WitnessAllFailed ==
    /\ pc = "crawl_done"
    /\ max_retries = 3
    /\ Len(requests) = 3
    /\ Len(sleeps) = 2
    /\ article.crawl_success = FALSE
    /\ article.crawl_error = RequestError(2)

(***************************************************************************)
(* Claims about the quotes picker (checked under SpecQuotes)               *)
(***************************************************************************)
\* Quote i got one more usage record, of the date of the call; every other
\* quote is as before, and the quote is what the call returned.
OneRecordOn(i) ==
    /\ Len(quotes') = Len(quotes)
    /\ quotes'[i].used_dates = Append(quotes[i].used_dates, pick_date')
    /\ quotes'[i].id = quotes[i].id
    /\ \A j \in 1..Len(quotes) : j # i => quotes'[j] = quotes[j]
    /\ picked' = quotes'[i]

\* The record went to a never-used quote if there is one, else to a quote
\* whose last recorded use is the earliest.
RightQuote(i) ==
    IF Unused # {} THEN i \in Unused
    ELSE \A j \in 1..Len(quotes) :
             Last(quotes[i].used_dates) <= Last(quotes[j].used_dates)

\* A call of pick for a date that some quote has on record returns such a
\* quote and leaves the file unchanged.
PickOfRecordedDate ==
    TodayUsed(pick_date') # {} =>
        /\ quotes' = quotes
        /\ picked'.kind = "quote"
        /\ pick_date' \in Range(picked'.used_dates)

\* C29 (as stated): each call pick(d) adds no usage record if d is already
\* recorded on some quote (it returns that quote, the file stays unchanged),
\* otherwise exactly one record of d, on a never-used quote whenever one
\* exists and otherwise on the quote whose last recorded use is the earliest.
C29_PickAddsOneRecord ==
    [][picks' # picks =>
          /\ PickOfRecordedDate
          /\ TodayUsed(pick_date') = {} =>
                \E i \in 1..Len(quotes) : OneRecordOn(i) /\ RightQuote(i)]_vars

\* C29 (amended): as stated for a quotes file that holds at least one
\* quote; on an empty file pick raises IndexError and the file stays empty.
C29_PickAddsOneRecordUnlessEmpty ==
    [][picks' # picks =>
          /\ PickOfRecordedDate
          /\ (TodayUsed(pick_date') = {} /\ quotes # <<>>) =>
                \E i \in 1..Len(quotes) : OneRecordOn(i) /\ RightQuote(i)
          /\ quotes = <<>> => (picked' = IndexError /\ quotes' = quotes)]_vars

\* C29's case: every quote of the file has been used, the last call reused
\* the one whose last use was the earliest, and passed over a quote whose
\* first use was earlier still.
C29_Witness ==
    /\ pc = "quotes_picks"
    /\ Len(quotes) >= 2
    /\ picks >= 3
    /\ picked.kind = "quote"
    /\ Len(picked.used_dates) = 2
    /\ \A i \in 1..Len(quotes) : quotes[i].used_dates # <<>>
    /\ \E i \in 1..Len(quotes) :
          /\ quotes[i].id # picked.id
          /\ quotes[i].used_dates[1] < picked.used_dates[1]

\* C29's other cases: a call for a date already on record returned the quote
\* and added nothing; a call on an empty file raised.
C29_WitnessRepeat ==
    /\ pc = "quotes_picks"
    /\ picks = 2
    /\ picked.kind = "quote"
    /\ picked.used_dates = <<pick_date>>
    /\ \A i \in 1..Len(quotes) : quotes[i].id # picked.id => quotes[i].used_dates = <<>>
    /\ Len(quotes) = 3

(***************************************************************************)
(* Claims about pipeline._select_diverse_articles (SpecPure)               *)
(***************************************************************************)
SelectCalled == call = "_select_diverse_articles"

SelectReturned == SelectCalled /\ pc = "pure_done"

\* how many of the articles of the list are of the source
TakenFrom(selected, src) ==
    Cardinality({k \in 1..Len(selected) : arg.articles[selected[k]] = src})

TotalOf(src) == Cardinality({k \in 1..Len(arg.articles) : arg.articles[k] = src})

\* what the claim says of a returned selection
RoundRobinSelection(selected) ==
    /\ Len(selected) = IF arg.max_count < Len(arg.articles) THEN arg.max_count
                       ELSE Len(arg.articles)
    /\ \A k \in 1..Len(selected) : selected[k] \in 1..Len(arg.articles)
    /\ \A j, k \in 1..Len(selected) : j < k => selected[j] # selected[k]
    /\ \A j, k \in 1..Len(selected) :
          (j < k /\ arg.articles[selected[j]] = arg.articles[selected[k]])
              => selected[j] < selected[k]
    /\ \A s1, s2 \in SourceNames :
          \/ TakenFrom(selected, s1) - TakenFrom(selected, s2) <= 1
          \/ TakenFrom(selected, s2) = TotalOf(s2)

\* What is left to do: articles not selected and iterators not found
\* exhausted, three steps for each, and the steps of the pass under way.
SelectRank ==
    IF pc = "pure_done" THEN 0
    ELSE IF pc = "pure_call"
    THEN 3 * (Len(arg.articles) + Len(SourceOrder(arg.articles))) + 2
    ELSE LET left == (Len(arg.articles) - Len(ret.selected))
                       + Cardinality(Range(ret.iterators) \ Range(ret.exhausted))
         IN  3 * left + (IF pc = "select_while" THEN 1
                         ELSE IF ret.cursor = 1 THEN 0 ELSE 2)

\* In the for loop an iterator has given at most the articles of its source,
\* so next(it, None) gives the next article or None.
SelectCanStep ==
    (SelectCalled /\ pc = "select_for") =>
        \A src \in SourceNames :
            ret.consumed[src] <= Len(BySource(arg.articles, src))

\* C30: _select_diverse_articles terminates (every step of a call lowers a
\* rank that is never negative, and a call that has not returned can step)
\* and returns exactly min(max_count, number of articles) articles, none
\* repeated, in input order within each source, and the numbers taken from
\* two sources differ by at most one unless the source with fewer taken has
\* been exhausted.
C30_RoundRobin ==
    /\ [](SelectReturned => ~ret.raised /\ RoundRobinSelection(ret.value))
    /\ [](SelectCalled => SelectRank >= 0)
    /\ []SelectCanStep
    /\ [][SelectCalled => SelectRank' < SelectRank]_vars

\* C30's case: three sources, fewer articles asked for than there are, and
\* the selection was cut in the middle of a round.
C30_Witness ==
    /\ SelectReturned
    /\ Len(arg.articles) = 5
    /\ arg.max_count = 4
    /\ \A src \in SourceNames : TotalOf(src) >= 1
    /\ Len(ret.value) = 4
    /\ \E src \in SourceNames : TakenFrom(ret.value, src) = 2

\* C30's other case: one source was exhausted and another gave two more
\* articles than it.
C30_WitnessExhausted ==
    /\ SelectReturned
    /\ \E s1, s2 \in SourceNames :
          /\ TakenFrom(ret.value, s2) >= 1
          /\ TakenFrom(ret.value, s1) >= TakenFrom(ret.value, s2) + 2
    /\ Len(ret.value) < Len(arg.articles)

====
